---- MODULE Spec2Model ----
(***************************************************************************)
(* Detection fusion of src/ml/detection_merger.py: calculate_iou,          *)
(* normalize_class_name, are_same_class, merge_detections and              *)
(* get_combined_summary.                                                   *)
(*                                                                         *)
(* Representation.  A Python str is a sequence of one-character strings    *)
(* over the ASCII alphabet.                                                *)
(* A confidence is an integer number of hundredths (0.90 is 90); a weight  *)
(* is an integer number of tenths (0.9 is 9).  A weighted confidence is    *)
(* the double that the code's multiplication gives, by its number: 3 * t   *)
(* for the double nearest to the exact product of t thousandths, one more  *)
(* or one less for the double next above or below it; the numbers are      *)
(* ordered as the doubles are.  An IoU is the exact fraction               *)
(* <<numerator, denominator>> of two integer areas, compared by            *)
(* cross-multiplication (the boxes have integer coordinates, and the       *)
(* quotients of integers this small compare in doubles as they do          *)
(* exactly).  The confidence of a cluster is the double the code holds,    *)
(* written <<num, den, ulps>>: the double nearest to num/den, a fraction   *)
(* of hundredths in lowest terms, moved by ulps doubles (upwards for       *)
(* ulps > 0).  The mean of line 231 is computed as Python 3.11 does, each  *)
(* addition of sum() and the division rounded to the nearest double:       *)
(* (0.9 + 0.8) / 2 is <<17, 20, 1>>, that is 0.8500000000000001, where     *)
(* 0.85 is <<17, 20, 0>>.  A value that may be None (class_id,             *)
(* fuzzy_score) is a set with at most one element, {} for None.  A dict is *)
(* a function on its set of keys, so a detection without the key class_id  *)
(* is a record without that field; fuzzy_score, which the code reads with  *)
(* .get(key, None) and compares with None, is {} also when the key is      *)
(* missing.  Python list positions 0..n-1 are the sequence positions 1..n. *)
(***************************************************************************)
EXTENDS Integers, Sequences, FiniteSets, TLC

\* ------------------------------------------------------------------------
\* IoU values: quotients of two integer areas

\* iou > iou_threshold (line 224), for positive denominators
FracGT(p, q) ==
  p[1] * q[2] > q[1] * p[2]

\* equality of two IoU values, for positive denominators
FracEQ(p, q) ==
  p[1] * q[2] = q[1] * p[2]

\* Python max() and min() of two numbers
Max(a, b) ==
  IF a >= b THEN a ELSE b

\* the larger of the two where min() takes the smaller
MinTakesLarger(a, b) ==
  IF a <= b THEN b ELSE a

Min(a, b) ==
  IF a <= b THEN a ELSE b

\* ------------------------------------------------------------------------
\* calculate_iou (detection_merger.py 9-43)

\* calculate_iou without the return for an empty intersection (lines 30-31)
calculate_iou_unchecked(box1, box2) ==
  LET x_left   == Max(box1.x1, box2.x1)
      y_top    == Max(box1.y1, box2.y1)
      x_right  == Min(box1.x2, box2.x2)
      y_bottom == Min(box1.y2, box2.y2)
      intersection_area == (x_right - x_left) * (y_bottom - y_top)
      box1_area == (box1.x2 - box1.x1) * (box1.y2 - box1.y1)
      box2_area == (box2.x2 - box2.x1) * (box2.y2 - box2.y1)
      union_area == box1_area + box2_area - intersection_area
  IN  IF union_area = 0
        THEN <<0, 1>>
        ELSE <<intersection_area, union_area>>

\* calculate_iou dividing by the area of box1 instead of the union (line 38)
calculate_iou_over_box1(box1, box2) ==
  LET x_left   == Max(box1.x1, box2.x1)
      y_top    == Max(box1.y1, box2.y1)
      x_right  == Min(box1.x2, box2.x2)
      y_bottom == Min(box1.y2, box2.y2)
      intersection_area == (x_right - x_left) * (y_bottom - y_top)
      box1_area == (box1.x2 - box1.x1) * (box1.y2 - box1.y1)
  IN  IF x_right < x_left \/ y_bottom < y_top
        THEN <<0, 1>>
        ELSE IF box1_area = 0
               THEN <<0, 1>>
               ELSE <<intersection_area, box1_area>>

\* calculate_iou with the intersection counted twice in the union (line 38)
calculate_iou_sum_of_areas(box1, box2) ==
  LET x_left   == Max(box1.x1, box2.x1)
      y_top    == Max(box1.y1, box2.y1)
      x_right  == Min(box1.x2, box2.x2)
      y_bottom == Min(box1.y2, box2.y2)
      intersection_area == (x_right - x_left) * (y_bottom - y_top)
      box1_area == (box1.x2 - box1.x1) * (box1.y2 - box1.y1)
      box2_area == (box2.x2 - box2.x1) * (box2.y2 - box2.y1)
      union_area == box1_area + box2_area
  IN  IF x_right < x_left \/ y_bottom < y_top
        THEN <<0, 1>>
        ELSE IF union_area = 0
               THEN <<0, 1>>
               ELSE <<intersection_area, union_area>>

calculate_iou(box1, box2) ==
  LET x_left   == Max(box1.x1, box2.x1)
      y_top    == Max(box1.y1, box2.y1)
      x_right  == Min(box1.x2, box2.x2)
      y_bottom == Min(box1.y2, box2.y2)
      intersection_area == (x_right - x_left) * (y_bottom - y_top)
      box1_area == (box1.x2 - box1.x1) * (box1.y2 - box1.y1)
      box2_area == (box2.x2 - box2.x1) * (box2.y2 - box2.y1)
      union_area == box1_area + box2_area - intersection_area
  IN  IF x_right < x_left \/ y_bottom < y_top
        THEN <<0, 1>>
        ELSE IF union_area = 0
               THEN <<0, 1>>
               ELSE <<intersection_area, union_area>>

\* ------------------------------------------------------------------------
\* str methods used by normalize_class_name and merge_detections

UpperToLower ==
  ("A" :> "a") @@ ("B" :> "b") @@ ("C" :> "c") @@ ("D" :> "d")
  @@ ("E" :> "e") @@ ("F" :> "f") @@ ("G" :> "g") @@ ("H" :> "h")
  @@ ("I" :> "i") @@ ("J" :> "j") @@ ("K" :> "k") @@ ("L" :> "l")
  @@ ("M" :> "m") @@ ("N" :> "n") @@ ("O" :> "o") @@ ("P" :> "p")
  @@ ("Q" :> "q") @@ ("R" :> "r") @@ ("S" :> "s") @@ ("T" :> "t")
  @@ ("U" :> "u") @@ ("V" :> "v") @@ ("W" :> "w") @@ ("X" :> "x")
  @@ ("Y" :> "y") @@ ("Z" :> "z")

LowerToUpper ==
  [c \in {UpperToLower[u] : u \in DOMAIN UpperToLower} |->
     CHOOSE u \in DOMAIN UpperToLower : UpperToLower[u] = c]

\* the characters str.strip() removes, those of the ASCII alphabet with
\* str.isspace(): space, \t, \n, \r, \f (0x0c), and 0x0b, 0x1c, 0x1d, 0x1e,
\* 0x1f, which have no escape and stand in their strings as themselves
Whitespace ==
  {" ", "\t", "\n", "\r", "\f", "", "", "", "", ""}

LowerChar(c) ==
  IF c \in DOMAIN UpperToLower THEN UpperToLower[c] ELSE c

UpperChar(c) ==
  IF c \in DOMAIN LowerToUpper THEN LowerToUpper[c] ELSE c

IsCased(c) ==
  c \in DOMAIN UpperToLower \/ c \in DOMAIN LowerToUpper

\* the string as it is where str.lower() folds the case
StrKeepsCase(s) ==
  s

\* str.lower()
StrLower(s) ==
  [k \in 1..Len(s) |-> LowerChar(s[k])]

\* str.strip()
StrStrip(s) ==
  LET keep == {k \in 1..Len(s) : s[k] \notin Whitespace}
  IN  IF keep = {}
        THEN <<>>
        ELSE LET first == CHOOSE k \in keep : \A m \in keep : k <= m
                 last  == CHOOSE k \in keep : \A m \in keep : k >= m
             IN  SubSeq(s, first, last)

\* keyword in s
StrContains(s, keyword) ==
  \E k \in 0..(Len(s) - Len(keyword)) :
     \A m \in 1..Len(keyword) : s[k + m] = keyword[m]

\* str.title(): a cased character is upper-cased when the character before
\* it is not cased and lower-cased when it is.
StrTitle(s) ==
  [k \in 1..Len(s) |->
     IF k > 1 /\ IsCased(s[k - 1]) THEN LowerChar(s[k]) ELSE UpperChar(s[k])]

\* ------------------------------------------------------------------------
\* normalize_class_name (detection_merger.py 46-110)

pattern_mappings ==
  << << << <<"b", "e", "d", "r", "o", "o", "m">>,
           <<"b", "e", "d", " ", "r", "o", "o", "m">> >>,
        <<"b", "e", "d", "r", "o", "o", "m">> >>,
     << << <<"b", "a", "t", "h", "r", "o", "o", "m">>,
           <<"b", "a", "t", "h", " ", "r", "o", "o", "m">>,
           <<"r", "e", "s", "t", "r", "o", "o", "m">>,
           <<"w", "a", "s", "h", "r", "o", "o", "m">>,
           <<"w", "c">>,
           <<"t", "o", "i", "l", "e", "t">>,
           <<"l", "a", "v", "a", "t", "o", "r", "y">> >>,
        <<"t", "o", "i", "l", "e", "t">> >>,
     << << <<"k", "i", "t", "c", "h", "e", "n">>,
           <<"k", "i", "t", "c", "h", "e", "n", "e", "t", "t", "e">> >>,
        <<"k", "i", "t", "c", "h", "e", "n">> >>,
     << << <<"l", "i", "v", "i", "n", "g", " ", "r", "o", "o", "m">>,
           <<"l", "i", "v", "i", "n", "g", "r", "o", "o", "m">>,
           <<"l", "o", "u", "n", "g", "e">>,
           <<"f", "a", "m", "i", "l", "y", " ", "r", "o", "o", "m">> >>,
        <<"l", "i", "v", "i", "n", "g", " ", "r", "o", "o", "m">> >>,
     << << <<"d", "i", "n", "i", "n", "g", " ", "r", "o", "o", "m">>,
           <<"d", "i", "n", "i", "n", "g", "r", "o", "o", "m">>,
           <<"d", "i", "n", "i", "n", "g", " ", "a", "r", "e", "a">>,
           <<"d", "i", "n", "i", "n", "g", " ", "t", "a", "b", "l", "e">> >>,
        <<"d", "i", "n", "i", "n", "g", " ", "r", "o", "o", "m">> >>,
     << << <<"b", "a", "l", "c", "o", "n", "y">>,
           <<"t", "e", "r", "r", "a", "c", "e">>,
           <<"p", "a", "t", "i", "o">> >>,
        <<"b", "e", "d", "r", "o", "o", "m">> >>,
     << << <<"f", "o", "y", "e", "r">>,
           <<"e", "n", "t", "r", "y">>,
           <<"e", "n", "t", "r", "a", "n", "c", "e">>,
           <<"h", "a", "l", "l", "w", "a", "y">>,
           <<"c", "o", "r", "r", "i", "d", "o", "r">> >>,
        <<"b", "e", "d", "r", "o", "o", "m">> >>,
     << << <<"c", "l", "o", "s", "e", "t">>,
           <<"w", "a", "r", "d", "r", "o", "b", "e">>,
           <<"s", "t", "o", "r", "a", "g", "e">> >>,
        <<"c", "a", "b", "i", "n", "e", "t">> >>,
     << << <<"o", "f", "f", "i", "c", "e">>,
           <<"s", "t", "u", "d", "y">> >>,
        <<"r", "o", "o", "m">> >>,
     << << <<"l", "a", "u", "n", "d", "r", "y">>,
           <<"u", "t", "i", "l", "i", "t", "y">> >>,
        <<"r", "o", "o", "m">> >>,
     << << <<"c", "o", "u", "c", "h">>,
           <<"s", "o", "f", "a">> >>,
        <<"s", "o", "f", "a">> >>,
     << << <<"p", "o", "t", "t", "e", "d", " ", "p", "l", "a", "n", "t">>,
           <<"p", "l", "a", "n", "t">> >>,
        <<"r", "o", "o", "m">> >> >>

exact_synonyms ==
  << << <<"w", "c">>, <<"t", "o", "i", "l", "e", "t">> >>,
     << <<"d", "o", "o", "r">>, <<"d", "o", "o", "r">> >>,
     << <<"w", "i", "n", "d", "o", "w">>, <<"w", "i", "n", "d", "o", "w">> >>,
     << <<"w", "a", "l", "l">>, <<"w", "a", "l", "l">> >>,
     << <<"r", "o", "o", "m">>, <<"r", "o", "o", "m">> >>,
     << <<"t", "a", "b", "l", "e">>, <<"t", "a", "b", "l", "e">> >>,
     << <<"c", "h", "a", "i", "r">>, <<"c", "h", "a", "i", "r">> >>,
     << <<"b", "e", "d">>, <<"b", "e", "d">> >>,
     << <<"s", "o", "f", "a">>, <<"s", "o", "f", "a">> >>,
     << <<"r", "e", "f", "r", "i", "g", "e", "r", "a", "t", "o", "r">>, <<"r", "e", "f", "r", "i", "g", "e", "r", "a", "t", "o", "r">> >>,
     << <<"f", "r", "i", "d", "g", "e">>, <<"r", "e", "f", "r", "i", "g", "e", "r", "a", "t", "o", "r">> >>,
     << <<"s", "i", "n", "k">>, <<"s", "i", "n", "k">> >>,
     << <<"s", "t", "a", "i", "r", "s">>, <<"s", "t", "a", "i", "r", "s">> >>,
     << <<"s", "t", "a", "i", "r", "c", "a", "s", "e">>, <<"s", "t", "a", "i", "r", "s">> >>,
     << <<"c", "o", "u", "n", "t", "e", "r">>, <<"c", "o", "u", "n", "t", "e", "r">> >>,
     << <<"c", "o", "u", "n", "t", "e", "r", "t", "o", "p">>, <<"c", "o", "u", "n", "t", "e", "r">> >> >>

\* the canonical name of the last rule from r on, in list order, that has a
\* keyword contained in s
RECURSIVE MatchFromLast(_, _)
MatchFromLast(s, r) ==
  IF r > Len(pattern_mappings)
    THEN <<>>
    ELSE LET later == MatchFromLast(s, r + 1)
         IN  IF later # <<>>
               THEN later
               ELSE IF \E w \in 1..Len(pattern_mappings[r][1]) :
                          StrContains(s, pattern_mappings[r][1][w])
                      THEN <<pattern_mappings[r][2]>>
                      ELSE <<>>

\* the canonical name of the first rule from r on, in list order, that has
\* a keyword contained in s
RECURSIVE MatchFrom(_, _)
MatchFrom(s, r) ==
  IF r > Len(pattern_mappings)
    THEN <<>>
    ELSE IF \E w \in 1..Len(pattern_mappings[r][1]) :
               StrContains(s, pattern_mappings[r][1][w])
           THEN <<pattern_mappings[r][2]>>
           ELSE MatchFrom(s, r + 1)

normalize_class_name(class_name) ==
  LET normalized == StrStrip(StrLower(class_name))
      hit == MatchFrom(normalized, 1)
      exact == {e \in 1..Len(exact_synonyms) : exact_synonyms[e][1] = normalized}
  IN  IF hit # <<>>
        THEN hit[1]
        ELSE IF exact # {}
               THEN exact_synonyms[CHOOSE e \in exact : TRUE][2]
               ELSE normalized

\* The class names of the input detections: "Door" and "door " share a
\* canonical class, "Wall" has another
Labels ==
  { <<"D", "o", "o", "r">>, <<"d", "o", "o", "r", " ">>, <<"W", "a", "l", "l">> }

OneLabel ==
  { <<"D", "o", "o", "r">> }

\* class names for the rules of normalize_class_name: the examples of the
\* specification in several spellings, names with keywords of two rules,
\* names only the exact table knows and names nothing knows
RuleLabels ==
  { <<"B", "e", "d", "r", "o", "o", "m", " ", "2">>,
    <<"M", "a", "s", "t", "e", "r", " ", "B", "e", "d", "r", "o", "o", "m">>,
    <<"W", "C">>,
    <<" ", "w", "c", " ">>,
    <<"L", "i", "v", "i", "n", "g", " ", "R", "o", "o", "m">>,
    <<"c", "o", "u", "c", "h">>,
    <<"C", "O", "U", "C", "H">>,
    <<"f", "r", "i", "d", "g", "e">>,
    <<"F", "r", "i", "d", "g", "e", " ">>,
    <<"s", "t", "a", "i", "r", "c", "a", "s", "e">>,
    <<"c", "o", "u", "n", "t", "e", "r", "t", "o", "p">>,
    <<"D", "o", "o", "r">>,
    <<"d", "o", "o", "r", " ">>,
    <<"d", "o", "o", "r", "\f">>,
    <<"S", "o", "f", "a", " ", "B", "e", "d">>,
    <<"S", "t", "u", "d", "y", " ", "L", "o", "u", "n", "g", "e">>,
    <<"K", "i", "t", "c", "h", "e", "n", " ", "S", "t", "o", "r", "a", "g", "e">>,
    <<"E", "n", "t", "r", "y", " ", "D", "o", "o", "r">>,
    <<"B", "e", "d">>,
    <<"T", "a", "b", "l", "e">>,
    <<"D", "i", "n", "i", "n", "g", " ", "T", "a", "b", "l", "e">>,
    <<"P", "l", "a", "n", "t", " ", "O", "f", "f", "i", "c", "e">>,
    <<"G", "a", "r", "a", "g", "e">>,
    <<" ", "C", "a", "r", " ", "P", "o", "r", "t">> }

\* normalize_class_name of every input class name, evaluated once
Canonical ==
  [class_name \in Labels \cup OneLabel \cup RuleLabels |->
     normalize_class_name(class_name)]

\* are_same_class without the comparison of the canonical names
any_class_matches(class1, class2) ==
  TRUE

\* are_same_class (detection_merger.py 113-124)
are_same_class(class1, class2) ==
  Canonical[class1] = Canonical[class2]

\* ------------------------------------------------------------------------
\* merge_detections (detection_merger.py 127-248)

\* iou_threshold: float = 0.3
iou_threshold ==
  <<3, 10>>

\* the default confidence_weight, in tenths
confidence_weight ==
  [yolo |-> 10, detectron2 |-> 10, floorplan |-> 9]

\* the confidences c, in hundredths, whose product with the weight w, in
\* tenths, the IEEE 754 double multiplication (c/100) * (w/10) of line 167
\* rounds to the double next above the double nearest to c*w/1000
ProductRoundsUp(w) ==
  CASE w \in {1, 2, 4, 8} ->
         {5, 7, 10, 11, 13, 14, 19, 20, 22, 23, 26, 27, 28, 38, 39, 40, 43,
          44, 45, 46, 51, 52, 53, 54, 55, 56, 75, 76, 77, 78, 79,
          80, 81, 86, 87, 88, 89, 90, 91, 92, 93}
    [] w \in {3, 6} ->
         {17, 34, 68}
    [] w = 9 ->
         {1, 2, 4, 5, 7, 8, 10, 14, 16, 17, 20, 23, 27, 28, 32, 33, 34, 39,
          40, 46, 53, 54, 55, 56, 63, 64, 65, 66, 67, 68, 77, 78,
          79, 80, 81, 91, 92, 93}
    [] OTHER -> {}

\* the confidences whose product with the weight w it rounds to the double
\* next below
ProductRoundsDown(w) ==
  CASE w \in {1, 2, 4, 8} ->
         {29, 35, 57, 58, 69, 70}
    [] w \in {3, 6} ->
         {19, 38, 39, 41, 57, 75, 76, 77, 78, 82, 83}
    [] w = 7 ->
         {1, 2, 3, 4, 5, 6, 8, 10, 12, 16, 19, 20, 24, 29, 32, 33, 35, 38,
          39, 40, 47, 48, 49, 57, 58, 63, 64, 65, 66, 69, 70, 71,
          75, 76, 77, 78, 79, 80, 94, 95, 96, 97, 98}
    [] OTHER -> {}

\* the products in doubles by weight, 0..10 tenths, and confidence, 0..100
\* hundredths.  The double nearest to t thousandths has the number 3 * t,
\* the double next above it 3 * t + 1 and the double next below it
\* 3 * t - 1, so that the numbers are ordered as the doubles are.
FloatProducts ==
  [w \in 0..10 |->
     [c \in 0..100 |->
        3 * (c * w)
        + (IF c \in ProductRoundsUp(w) THEN 1
           ELSE IF c \in ProductRoundsDown(w) THEN -1
           ELSE 0)]]

\* det['confidence'] * confidence_weight[source]
FloatProduct(confidence, weight) ==
  FloatProducts[weight][confidence]

\* one "for det in ..." loop of lines 165-184: {**det, 'source': ...,
\* 'weighted_confidence': det['confidence'] * confidence_weight[source]},
\* weights being the confidence_weight in force
Tagged(dets, source, weights) ==
  [k \in 1..Len(dets) |->
     [source |-> source,
      weighted_confidence |->
        FloatProduct(dets[k].confidence, weights[source])]
     @@ dets[k]]

\* the same loop raises KeyError on its first record when the mapping has
\* no weight for the source, and on a record without 'confidence'
TaggingRaises(dets, source, weights) ==
  /\ dets # <<>>
  /\ \/ source \notin DOMAIN weights
     \/ \E k \in 1..Len(dets) : "confidence" \notin DOMAIN dets[k]

\* InsertDesc for an ascending sort (reverse=True left out)
InsertAsc(sorted, x) ==
  LET before == {k \in 1..Len(sorted) :
                   sorted[k].weighted_confidence <= x.weighted_confidence}
      n == Cardinality(before)
  IN  SubSeq(sorted, 1, n) \o <<x>> \o SubSeq(sorted, n + 1, Len(sorted))

\* InsertDesc placing x in front of the elements with an equal key, as a
\* sort that is not stable may
InsertDescBeforeTies(sorted, x) ==
  LET before == {k \in 1..Len(sorted) :
                   sorted[k].weighted_confidence > x.weighted_confidence}
      n == Cardinality(before)
  IN  SubSeq(sorted, 1, n) \o <<x>> \o SubSeq(sorted, n + 1, Len(sorted))

\* x placed behind every element whose key is not smaller: the place a
\* stable descending sort gives to an element that came later in the list
InsertDesc(sorted, x) ==
  LET before == {k \in 1..Len(sorted) :
                   sorted[k].weighted_confidence >= x.weighted_confidence}
      n == Cardinality(before)
  IN  SubSeq(sorted, 1, n) \o <<x>> \o SubSeq(sorted, n + 1, Len(sorted))

\* SortDesc without the sort (line 190 left out): insertion order
SortKeepsOrder(s, k) ==
  SubSeq(s, 1, k)

\* all_detections.sort(key=weighted_confidence, reverse=True); list.sort is
\* stable, also with reverse=True: the first k elements of s, sorted, are
\* the first k - 1, sorted, with s[k] inserted (the two are bound so that
\* each is evaluated once)
RECURSIVE SortDesc(_, _)
SortDesc(s, k) ==
  IF k = 0
    THEN <<>>
    ELSE CHOOSE r \in {InsertDesc(sorted, x) :
                         sorted \in {SortDesc(s, k - 1)}, x \in {s[k]}} : TRUE

\* ------------------------------------------------------------------------
\* Doubles of line 231
\*
\* <<C, q, R>> is the number (C * 2^61 + R) / (q * 2^61): the exact
\* quotient C/q of hundredths plus the rounding error R the doubles added.

\* the powers of two from 2^0 to 2^30
Pow2s ==
  << 1, 2, 4, 8, 16, 32, 64, 128, 256, 512, 1024, 2048, 4096, 8192, 16384,
     32768, 65536, 131072, 262144, 524288, 1048576, 2097152, 4194304,
     8388608, 16777216, 33554432, 67108864, 134217728, 268435456, 536870912,
     1073741824 >>

\* 2^k
Pow2(k) ==
  Pow2s[k + 1]

\* 2^p modulo m for p up to 70 and m below 2^15, in 32-bit integers
Pow2Mod(p, m) ==
  IF p <= 20
    THEN Pow2(p) % m
    ELSE IF p <= 40
           THEN ((Pow2(20) % m) * (Pow2(p - 20) % m)) % m
           ELSE ((((Pow2(20) % m) * (Pow2(20) % m)) % m)
                   * (Pow2(p - 40) % m)) % m

\* math.gcd
RECURSIVE GCD(_, _)
GCD(a, b) ==
  IF b = 0 THEN a ELSE GCD(b, a % b)

\* the exponent j of the doubles around a positive number:
\* 2^j <= number < 2^(j+1), where consecutive doubles are 2^(j-52) apart
Binade(C, q, R) ==
  CHOOSE e \in
    { IF q * Pow2(j + 9) = C * 512 /\ R < 0 THEN j - 1 ELSE j :
        j \in {Cardinality({h \in -8..2 : q * Pow2(h + 9) <= C * 512}) - 9} } :
    TRUE

\* the double nearest to a number, ties to the even double (IEEE 754
\* round-to-nearest, the rounding of every float operation of Python)
RoundToDouble(C, q, R) ==
  IF C = 0
    THEN <<0, q, 0>>
    ELSE CHOOSE d \in
           { LET rho  == r2 % q
                 qpar == r2 \div q
                 G    == q * L
                 f    == (rho * L + R) \div G
                 rem  == (rho * L + R) - f * G
                 t    == IF 2 * rem > G
                           THEN f + 1
                           ELSE IF 2 * rem < G
                                  THEN f
                                  ELSE IF (qpar + f) % 2 = 0
                                         THEN f
                                         ELSE f + 1
             IN  <<C, q, L * (q * t - rho)>> :
               L \in {Pow2(Binade(C, q, R) + 9)},
               r2 \in {(C * Pow2Mod(52 - Binade(C, q, R), 2 * q))
                          % (2 * q)} } : TRUE

\* the double of a confidence given in hundredths
FloatOfs ==
  [c \in 0..100 |-> RoundToDouble(c, 100, 0)]

\* a + b on doubles
FloatAdd(a, b) ==
  CHOOSE d \in {RoundToDouble(x[1] + y[1], x[2], x[3] + y[3]) :
                  x \in {a}, y \in {b}} : TRUE

\* a / n on a double and an int
FloatDiv(a, n) ==
  CHOOSE d \in {RoundToDouble(x[1], x[2] * n, x[3]) : x \in {a}} : TRUE

\* the double of a + b for two confidences in hundredths
FloatSums ==
  [a \in 0..100 |-> [b \in 0..100 |-> FloatAdd(FloatOfs[a], FloatOfs[b])]]

\* sum(confidences): from the int 0, left to right, in doubles (0 + a is
\* the double a itself)
RECURSIVE FloatSum(_, _)
FloatSum(confidences, k) ==
  IF k = 0
    THEN <<0, 100, 0>>
    ELSE IF k = 1
           THEN FloatOfs[confidences[1]]
           ELSE IF k = 2
                  THEN FloatSums[confidences[1]][confidences[2]]
                  ELSE CHOOSE d \in {FloatAdd(a, FloatOfs[confidences[k]]) :
                                       a \in {FloatSum(confidences, k - 1)}} :
                         TRUE

\* a double as <<num, den, ulps>>: the double nearest to num/den (in
\* lowest terms) moved by ulps doubles, upwards when ulps > 0
FloatValue(d) ==
  CHOOSE v \in
    { IF x[1] = 0
        THEN <<0, 1, 0>>
        ELSE CHOOSE w \in
               { <<x[1] \div g, x[2] \div g,
                   (x[3] - nearest[3])
                      \div (x[2] * Pow2(Binade(x[1], x[2], x[3]) + 9))>> :
                   g \in {GCD(x[1], x[2])},
                   nearest \in {RoundToDouble(x[1], x[2], 0)} } : TRUE :
        x \in {d} } : TRUE

\* the doubles of the confidences in hundredths as <<num, den, ulps>>
FloatConfidences ==
  [c \in 0..100 |-> FloatValue(FloatOfs[c])]

\* the double of a raw confidence
FloatOf(confidence) ==
  FloatConfidences[confidence]

\* (a + b) / 2 for two confidences in hundredths, as <<num, den, ulps>>
FloatMeansOfTwo ==
  [a \in 0..100 |->
     [b \in 0..100 |-> FloatValue(FloatDiv(FloatSums[a][b], 2))]]

\* sum(confidences) / len(confidences) for any number of confidences
FloatMeanOf(confidences) ==
  CHOOSE v \in
    { FloatValue(mean) :
        mean \in { FloatDiv(total, Len(values)) :
                     values \in {confidences},
                     total \in {FloatSum(confidences, Len(confidences))} } } :
    TRUE

\* sum(confidences) / len(confidences) of line 231; the means of one and
\* of two confidences are looked up (a / 1 is the double a itself)
FloatMean(confidences) ==
  IF Len(confidences) = 1
    THEN FloatConfidences[confidences[1]]
    ELSE IF Len(confidences) = 2
           THEN FloatMeansOfTwo[confidences[1]][confidences[2]]
           ELSE FloatMeanOf(confidences)

\* the keys of source_confidences in the order of their insertion: a
\* source enters the dict when it first enters sources (lines 204-205 and
\* 226-227), and the dict keeps the place of a key that is set again
RECURSIVE InsertionOrder(_, _)
InsertionOrder(srcs, k) ==
  IF k = 0
    THEN <<>>
    ELSE IF \E p \in 1..(k - 1) : srcs[p] = srcs[k]
           THEN InsertionOrder(srcs, k - 1)
           ELSE Append(InsertionOrder(srcs, k - 1), srcs[k])

\* list(source_confidences.values()) of line 230
DictValues(d, keys) ==
  [p \in 1..Len(keys) |-> d[keys[p]]]

\* lines 230-231 on the dict d whose keys entered in the order of srcs
MeanOfValues(d, srcs) ==
  CHOOSE v \in
    { FloatMean(confidences) :
        confidences \in { DictValues(d, keys) :
                            keys \in {InsertionOrder(srcs, Len(srcs))} } } :
    TRUE

\* d[key] = value on a dict
DictSet(d, key, value) ==
  [s \in DOMAIN d \cup {key} |-> IF s = key THEN value ELSE d[s]]

\* dict.get that never finds the key
DictGetDefault(d, key, default) ==
  default

\* dict.get(key, default)
DictGet(d, key, default) ==
  IF key \in DOMAIN d THEN d[key] ELSE default

\* the element of a present optional field
TheValue(opt) ==
  CHOOSE v \in opt : TRUE

\* NewCluster reporting the weighted confidence of the seed
NewClusterWeighted(det1) ==
  [class_name |-> det1.class_name,
   class_id |-> DictGet(det1, "class_id", {-1}),
   confidence |-> <<det1.weighted_confidence, 3000, 0>>,
   bbox |-> det1.bbox,
   sources |-> <<det1.source>>,
   source_confidences |-> DictSet(<<>>, det1.source, det1.confidence),
   fuzzy_score |-> det1.fuzzy_score]

\* lines 200-208
NewCluster(det1) ==
  [class_name |-> det1.class_name,
   class_id |-> DictGet(det1, "class_id", {-1}),
   confidence |-> FloatOf(det1.confidence),
   bbox |-> det1.bbox,
   sources |-> <<det1.source>>,
   source_confidences |-> DictSet(<<>>, det1.source, det1.confidence),
   fuzzy_score |-> det1.fuzzy_score]

\* Absorbed without the update of the confidence (lines 230-231 left out)
AbsorbedKeepsConfidence(m, det2) ==
  [m EXCEPT
     !.sources = Append(@, det2.source),
     !.source_confidences =
        DictSet(@, det2.source, det2.confidence),
     !.fuzzy_score =
        IF det2.fuzzy_score # {}
          THEN IF @ = {}
                 THEN det2.fuzzy_score
                 ELSE {Max(TheValue(@), TheValue(det2.fuzzy_score))}
          ELSE @]

\* Absorbed taking the fuzzy_score of the absorbed detection whenever it
\* has one (max() of line 238 left out)
AbsorbedLatestFuzzy(m, det2) ==
  LET sc == DictSet(m.source_confidences, det2.source, det2.confidence)
  IN  [m EXCEPT
         !.sources = Append(@, det2.source),
         !.source_confidences = sc,
         !.confidence = MeanOfValues(sc, Append(m.sources, det2.source)),
         !.fuzzy_score = IF det2.fuzzy_score # {} THEN det2.fuzzy_score ELSE @]

\* Absorbed listing a source once (a guard on line 227)
AbsorbedDistinctSources(m, det2) ==
  LET sc == DictSet(m.source_confidences, det2.source, det2.confidence)
  IN  [m EXCEPT
         !.sources =
            IF \E p \in 1..Len(@) : @[p] = det2.source
              THEN @
              ELSE Append(@, det2.source),
         !.source_confidences = sc,
         !.confidence = MeanOfValues(sc, Append(m.sources, det2.source)),
         !.fuzzy_score =
            IF det2.fuzzy_score # {}
              THEN IF @ = {}
                     THEN det2.fuzzy_score
                     ELSE {Max(TheValue(@), TheValue(det2.fuzzy_score))}
              ELSE @]

\* lines 226-238
Absorbed(m, det2) ==
  LET sc == DictSet(m.source_confidences, det2.source, det2.confidence)
  IN  [m EXCEPT
         !.sources = Append(@, det2.source),
         !.source_confidences = sc,
         !.confidence = MeanOfValues(sc, Append(m.sources, det2.source)),
         !.fuzzy_score =
            IF det2.fuzzy_score # {}
              THEN IF @ = {}
                     THEN det2.fuzzy_score
                     ELSE {Max(TheValue(@), TheValue(det2.fuzzy_score))}
              ELSE @]

\* Finalized counting the keys of source_confidences instead of the sources
FinalizedCountsKeys(m) ==
  [num_models_detected |-> Cardinality(DOMAIN m.source_confidences)]
  @@ [m EXCEPT !.class_name = StrTitle(Canonical[@])]

\* lines 243-244
Finalized(m) ==
  [num_models_detected |-> Len(m.sources)]
  @@ [m EXCEPT !.class_name = StrTitle(Canonical[@])]

\* lines 211-240 from position j on, for the seed at position i: the
\* cluster and the used positions when the inner loop ends
RECURSIVE InnerLoop(_, _, _, _, _)
InnerLoop(all, i0, j0, used, m) ==
  IF j0 > Len(all)
    THEN <<m, used>>
    ELSE IF /\ j0 \notin used
            /\ are_same_class(all[i0].class_name, all[j0].class_name)
            /\ FracGT(calculate_iou(all[i0].bbox, all[j0].bbox), iou_threshold)
           THEN InnerLoop(all, i0, j0 + 1, used \cup {j0}, Absorbed(m, all[j0]))
           ELSE InnerLoop(all, i0, j0 + 1, used, m)

\* lines 195-246 from position i on: merged_detections when the outer loop
\* ends
RECURSIVE OuterLoop(_, _, _, _)
OuterLoop(all, i0, used, merged) ==
  IF i0 > Len(all)
    THEN merged
    ELSE IF i0 \in used
           THEN OuterLoop(all, i0 + 1, used, merged)
           ELSE LET inner == InnerLoop(all, i0, i0 + 1, used \cup {i0},
                                       NewCluster(all[i0]))
                IN  OuterLoop(all, i0 + 1, inner[2],
                              Append(merged, Finalized(inner[1])))

\* merge_detections as a function of its arguments, for complete records
\* and a mapping with a weight for every source (lines 155-248)
merge_detections(yolo_list, detectron2_list, floorplan_list, weights) ==
  LET flat == Tagged(yolo_list, "yolo", weights)
              \o Tagged(detectron2_list, "detectron2", weights)
              \o Tagged(floorplan_list, "floorplan", weights)
  IN  IF flat = <<>>
        THEN <<>>
        ELSE OuterLoop(SortDesc(flat, Len(flat)), 1, {}, <<>>)

\* ------------------------------------------------------------------------
\* get_combined_summary (detection_merger.py 544-580)

\* what get_combined_summary gives in place of a value when a subscript
\* d[key] finds no key (lines 560, 566, 570, 571): the KeyError raised
KeyError(key) ==
  [KeyError |-> key]

\* v is a KeyError raised and no value
Raised(v) ==
  DOMAIN v = {"KeyError"}

\* lines 570-571: for source in det['sources']: model_contributions[source] += 1,
\* which raises KeyError for a source that is no key of model_contributions
RECURSIVE CountSources(_, _, _)
CountSources(contrib, srcs, k) ==
  IF k > Len(srcs)
    THEN contrib
    ELSE IF srcs[k] \notin DOMAIN contrib
           THEN KeyError(srcs[k])
           ELSE CountSources([contrib EXCEPT ![srcs[k]] = @ + 1], srcs, k + 1)

\* lines 558-571, from the k-th merged detection on: the accumulators, or
\* the KeyError of the first subscript that finds no key
RECURSIVE SummaryLoop(_, _, _)
SummaryLoop(merged, k, acc) ==
  IF k > Len(merged)
    THEN acc
    ELSE LET det == merged[k]
         IN  IF "class_name" \notin DOMAIN det
               THEN KeyError("class_name")
             ELSE IF "num_models_detected" \notin DOMAIN det
               THEN KeyError("num_models_detected")
             ELSE IF "sources" \notin DOMAIN det
               THEN KeyError("sources")
             ELSE
               LET by_class ==
                     DictSet(acc.detections_by_class, det.class_name,
                       DictGet(acc.detections_by_class, det.class_name, 0) + 1)
                   by_count ==
                     DictSet(acc.detections_by_source_count,
                       det.num_models_detected,
                       DictGet(acc.detections_by_source_count,
                               det.num_models_detected, 0) + 1)
               IN  CHOOSE r \in
                     { IF Raised(contrib)
                         THEN contrib
                         ELSE SummaryLoop(merged, k + 1,
                                [detections_by_class |-> by_class,
                                 detections_by_source_count |-> by_count,
                                 model_contributions |-> contrib]) :
                       contrib \in {CountSources(acc.model_contributions,
                                                 det.sources, 1)} } : TRUE

\* get_combined_summary with buckets that start at one
get_combined_summary_from_one(merged) ==
  LET acc == SummaryLoop(merged, 1,
               [detections_by_class |-> <<>>,
                detections_by_source_count |-> (1 :> 1) @@ (2 :> 1) @@ (3 :> 1),
                model_contributions |->
                  [yolo |-> 0, detectron2 |-> 0, floorplan |-> 0]])
  IN  IF Raised(acc)
        THEN acc
        ELSE [total_detections |-> Len(merged),
              detections_by_class |-> acc.detections_by_class,
              detections_by_source_count |-> acc.detections_by_source_count,
              model_contributions |-> acc.model_contributions,
              detection_details |-> merged,
              unique_classes |-> Cardinality(DOMAIN acc.detections_by_class)]

\* lines 544-580: the summary, or the KeyError raised in the loop
get_combined_summary(merged) ==
  LET acc == SummaryLoop(merged, 1,
               [detections_by_class |-> <<>>,
                detections_by_source_count |-> (1 :> 0) @@ (2 :> 0) @@ (3 :> 0),
                model_contributions |->
                  [yolo |-> 0, detectron2 |-> 0, floorplan |-> 0]])
  IN  IF Raised(acc)
        THEN acc
        ELSE [total_detections |-> Len(merged),
              detections_by_class |-> acc.detections_by_class,
              detections_by_source_count |-> acc.detections_by_source_count,
              model_contributions |-> acc.model_contributions,
              detection_details |-> merged,
              unique_classes |-> Cardinality(DOMAIN acc.detections_by_class)]

\* ------------------------------------------------------------------------
\* State

VARIABLES
  yolo_detections,        \* argument
  detectron2_detections,  \* argument
  floorplan_detections,   \* argument
  weight_arg,             \* argument confidence_weight: {} for None
  all_detections,         \* the tagged, sorted list
  used_indices,           \* positions of all_detections already in a cluster
  merged_detections,      \* the clusters finished so far
  merged_det,             \* the cluster under construction
  members,                \* per cluster, the positions it took, seed first
  i,                      \* outer loop position
  j,                      \* inner loop position
  pc,                     \* where the call stands
  summary,                \* result of get_combined_summary
  parked                  \* a second call, suspended: its arguments and locals

vars ==
  <<yolo_detections, detectron2_detections, floorplan_detections, weight_arg,
    all_detections, used_indices, merged_detections, merged_det, members,
    i, j, pc, summary, parked>>

\* the arguments of the running call
arguments ==
  <<yolo_detections, detectron2_detections, floorplan_detections, weight_arg>>

\* what no statement of the running call writes: its arguments, and the
\* arguments and locals of the suspended call
inputs ==
  <<arguments, parked>>

\* ------------------------------------------------------------------------
\* Inputs

\* longest input, all three lists together, of arbitrary detections
MaxDets ==
  2

\* longest input of detections of one class
MaxDetsOneClass ==
  3

\* longest input of detections of one class on two boxes far apart
MaxDetsCrowd ==
  4

\* hundredths; 1.00 weighted by 0.9 ties with 0.90 weighted by 1.0
Confidences ==
  {90, 100}

Box(x1, y1, x2, y2) ==
  [x1 |-> x1, y1 |-> y1, x2 |-> x2, y2 |-> y2]

\* IoU 3/7 between neighbours, 1/9 between the first and the last
Boxes ==
  { Box(0, 0, 10, 10), Box(4, 0, 14, 10), Box(8, 0, 18, 10) }

\* the two boxes with IoU 1/9, below the threshold
FarBoxes ==
  { Box(0, 0, 10, 10), Box(8, 0, 18, 10) }

\* detections without the key class_id
RawDetections(labels, confidences, boxes) ==
  [class_name : labels, confidence : confidences, bbox : boxes,
   fuzzy_score : {{}}]

SeqsUpTo(S, n) ==
  UNION {[1..k -> S] : k \in 0..n}

\* no second call
NoCall ==
  [pc |-> "none"]

\* the locals when the call starts, a single call running
Start ==
  /\ parked = NoCall
  /\ all_detections = <<>>
  /\ used_indices = {}
  /\ merged_detections = <<>>
  /\ merged_det = <<>>
  /\ members = <<>>
  /\ i = 1
  /\ j = 1
  /\ pc = "call"
  /\ summary = <<>>

\* up to n detections in all, confidence_weight not passed (main.py 486-490)
InitFrom(pool, n) ==
  /\ yolo_detections \in SeqsUpTo(pool, n)
  /\ detectron2_detections \in SeqsUpTo(pool, n - Len(yolo_detections))
  /\ floorplan_detections \in
       SeqsUpTo(pool, n - Len(yolo_detections) - Len(detectron2_detections))
  /\ weight_arg = {}
  /\ Start

\* the one confidence of the inputs that vary in class
OneConfidence ==
  {90}

\* detections of one class for the longer lists: of two confidences on one
\* box, of one confidence on a box far from it
CrowdDetections ==
  RawDetections(OneLabel, Confidences, {Box(0, 0, 10, 10)})
    \cup RawDetections(OneLabel, OneConfidence, {Box(8, 0, 18, 10)})

\* three families of inputs: detections of several classes and spellings
\* with one confidence, detections of one class with two confidences, and
\* longer lists of detections of one class on two boxes far apart
Init ==
  \/ InitFrom(RawDetections(Labels, OneConfidence, Boxes), MaxDets)
  \/ InitFrom(RawDetections(OneLabel, Confidences, Boxes), MaxDetsOneClass)
  \/ InitFrom(CrowdDetections, MaxDetsCrowd)

\* largest coordinate of the boxes of GridBoxes
MaxCoord ==
  2

\* every box on the grid: well-formed, zero-width, zero-height and inverted
GridBoxes ==
  { Box(x1, y1, x2, y2) : x1 \in 0..MaxCoord, y1 \in 0..MaxCoord,
                          x2 \in 0..MaxCoord, y2 \in 0..MaxCoord }

\* one yolo detection and one detectron2 detection
InitPair(pool) ==
  /\ yolo_detections \in [1..1 -> pool]
  /\ detectron2_detections \in [1..1 -> pool]
  /\ floorplan_detections = <<>>
  /\ weight_arg = {}
  /\ Start

\* two detections of one class on any two boxes of the grid, or of any two
\* class names on one box
InitPairs ==
  \/ InitPair(RawDetections(OneLabel, {90}, GridBoxes))
  \/ InitPair(RawDetections(RuleLabels, {90}, {Box(0, 0, 10, 10)}))

\* longest input of records that may lack 'confidence' or 'bbox', and
\* longest input under a confidence_weight that may lack sources
MaxDetsKeyError ==
  2

TwoLabels ==
  { <<"D", "o", "o", "r">>, <<"W", "a", "l", "l">> }

\* r without the key
Without(r, key) ==
  [f \in DOMAIN r \ {key} |-> r[f]]

\* input records, complete or lacking 'confidence', 'bbox' or both
PartialDetections(labels, confidences, boxes) ==
  LET full == RawDetections(labels, confidences, boxes)
  IN  full
      \cup {Without(r, "confidence") : r \in full}
      \cup {Without(r, "bbox") : r \in full}
      \cup {Without(Without(r, "confidence"), "bbox") : r \in full}

\* the default weights restricted to each set of sources
WeightMappings ==
  { [s \in D |-> confidence_weight[s]] :
      D \in SUBSET {"yolo", "detectron2", "floorplan"} }

InitKeyError ==
  \/ InitFrom(PartialDetections(TwoLabels, Confidences, FarBoxes),
              MaxDetsKeyError)
  \/ /\ yolo_detections
          \in SeqsUpTo(RawDetections(OneLabel, Confidences, FarBoxes),
                       MaxDetsKeyError)
     /\ detectron2_detections
          \in SeqsUpTo(RawDetections(OneLabel, Confidences, FarBoxes),
                       MaxDetsKeyError - Len(yolo_detections))
     /\ floorplan_detections
          \in SeqsUpTo(RawDetections(OneLabel, Confidences, FarBoxes),
                       MaxDetsKeyError - Len(yolo_detections)
                         - Len(detectron2_detections))
     /\ weight_arg \in {{w} : w \in WeightMappings}
     /\ Start

\* longest input of detections that may carry a fuzzy_score
MaxDetsScores ==
  3

\* longest input of detections that may carry a class_id
MaxDetsIds ==
  2

\* optional fuzzy_score values, hundredths
FuzzyScores ==
  { {}, {70}, {80} }

\* class_id values: None and two identifiers
ClassIds ==
  { {}, {1}, {2} }

\* detections of one class on two boxes far apart that may carry a
\* fuzzy_score
ScoredDetections ==
  [class_name : OneLabel, confidence : {90}, bbox : FarBoxes,
   fuzzy_score : FuzzyScores]

\* detections of one class on two overlapping boxes, without the key
\* class_id or with it, its value None or an identifier
IdentifiedDetections ==
  RawDetections(OneLabel, Confidences,
                {Box(0, 0, 10, 10), Box(4, 0, 14, 10)})
  \cup [class_name : OneLabel, class_id : ClassIds,
        confidence : Confidences,
        bbox : {Box(0, 0, 10, 10), Box(4, 0, 14, 10)}, fuzzy_score : {{}}]

InitScores ==
  \/ InitFrom(ScoredDetections, MaxDetsScores)
  \/ InitFrom(IdentifiedDetections, MaxDetsIds)

\* longest input under a caller's confidence_weight
MaxDetsWeights ==
  2

\* weights in tenths that a caller may give a source
WeightValues ==
  {5, 10}

\* the mappings with a weight for every source
FullWeightMappings ==
  [{"yolo", "detectron2", "floorplan"} -> WeightValues]

\* detections of one class on two boxes far apart, under the default
\* weights or under a mapping of the caller
InitWeights ==
  /\ yolo_detections
       \in SeqsUpTo(RawDetections(OneLabel, Confidences, FarBoxes),
                    MaxDetsWeights)
  /\ detectron2_detections
       \in SeqsUpTo(RawDetections(OneLabel, Confidences, FarBoxes),
                    MaxDetsWeights - Len(yolo_detections))
  /\ floorplan_detections
       \in SeqsUpTo(RawDetections(OneLabel, Confidences, FarBoxes),
                    MaxDetsWeights - Len(yolo_detections)
                      - Len(detectron2_detections))
  /\ weight_arg \in {{}} \cup {{w} : w \in FullWeightMappings}
  /\ Start

\* longest input of each of two calls that run interleaved
MaxDetsTwoCalls ==
  2

\* the inputs of a call of the two: yolo and detectron2 detections of one
\* class on two boxes far apart
TwoCallsInputs ==
  LET pool == { [class_name |-> <<"D", "o", "o", "r">>,
                 confidence |-> 90, bbox |-> Box(0, 0, 10, 10),
                 fuzzy_score |-> {}],
                [class_name |-> <<"D", "o", "o", "r">>,
                 confidence |-> 100, bbox |-> Box(8, 0, 18, 10),
                 fuzzy_score |-> {}] }
  IN  { args \in SeqsUpTo(pool, MaxDetsTwoCalls)
                   \X SeqsUpTo(pool, MaxDetsTwoCalls) :
          Len(args[1]) + Len(args[2]) <= MaxDetsTwoCalls }

\* two calls of merge_detections on independent inputs, both at their
\* start, one of them running
InitTwoCalls ==
  /\ \E args \in TwoCallsInputs :
        /\ yolo_detections = args[1]
        /\ detectron2_detections = args[2]
  /\ floorplan_detections = <<>>
  /\ weight_arg = {}
  /\ all_detections = <<>>
  /\ used_indices = {}
  /\ merged_detections = <<>>
  /\ merged_det = <<>>
  /\ members = <<>>
  /\ i = 1
  /\ j = 1
  /\ pc = "call"
  /\ summary = <<>>
  /\ parked \in { [yolo_detections |-> args[1],
                   detectron2_detections |-> args[2],
                   floorplan_detections |-> <<>>, weight_arg |-> {},
                   all_detections |-> <<>>, used_indices |-> {},
                   merged_detections |-> <<>>, merged_det |-> <<>>,
                   members |-> <<>>, i |-> 1, j |-> 1, pc |-> "call",
                   summary |-> <<>>] : args \in TwoCallsInputs }

\* longest input of detections of one class on three boxes in a row
MaxDetsOrder ==
  3

\* longest input of detections of two classes on three boxes in a row
MaxDetsOrderClasses ==
  2

\* longest input of detections whose weighted confidences nearly tie
MaxDetsNearTies ==
  2

\* confidences 0.18 and 0.20: 0.20 * 0.9 is the double next above
\* 0.18 * 1.0, and 0.18 * 0.9 the double nearest to 0.162
NearTieConfidences ==
  {18, 20}

\* inputs for the order of seeds and clusters: ties in weighted confidence
\* within and across sources, neighbours that overlap and ends that do not,
\* and products that differ in their rounding only
InitOrder ==
  \/ InitFrom(RawDetections(OneLabel, Confidences, Boxes), MaxDetsOrder)
  \/ InitFrom(RawDetections(TwoLabels, {90}, Boxes), MaxDetsOrderClasses)
  \/ InitFrom(RawDetections(OneLabel, NearTieConfidences,
                            {Box(0, 0, 10, 10), Box(4, 0, 14, 10)}),
              MaxDetsNearTies)

\* longest input of detections whose confidences have a mean that doubles
\* do not hold exactly
MaxDetsMean ==
  2

\* confidences 0.80 and 0.90: 0.9 + 0.8 is the double 1.7000000000000002
\* and its half 0.8500000000000001, the double next above 0.85
MeanConfidences ==
  {80, 90}

\* two spellings of one canonical class
TwoSpellings ==
  { <<"D", "o", "o", "r">>, <<"d", "o", "o", "r", " ">> }

\* inputs for the mean of a fused pair: one canonical class in two
\* spellings on three boxes in a row
InitMean ==
  InitFrom(RawDetections(TwoSpellings, MeanConfidences, Boxes), MaxDetsMean)

\* ------------------------------------------------------------------------
\* Steps of merge_detections

\* Weights with a silent default of 1.0 for a source the mapping lacks
WeightsWithDefault ==
  [s \in {"yolo", "detectron2", "floorplan"} |->
     IF weight_arg = {}
       THEN confidence_weight[s]
       ELSE IF s \in DOMAIN TheValue(weight_arg)
              THEN TheValue(weight_arg)[s]
              ELSE 10]

\* lines 155-160: the confidence_weight in force
Weights ==
  IF weight_arg = {} THEN confidence_weight ELSE TheValue(weight_arg)

\* lines 163-184: the tagged detections in insertion order
Flattened ==
  Tagged(yolo_detections, "yolo", Weights)
  \o Tagged(detectron2_detections, "detectron2", Weights)
  \o Tagged(floorplan_detections, "floorplan", Weights)

\* the KeyError caught and what is merged so far returned
SwallowKeyError ==
  pc' = "returned"

\* a subscript on a missing key (lines 169, 176, 183, 204, 222) raises
\* KeyError and the call is over without a return value
RaiseKeyError ==
  pc' = "error"

\* the tags written into the records of the caller's lists (det['source']
\* = ... in place of the new dict of lines 166-170)
TagsArgumentsInPlace ==
  /\ yolo_detections' = Tagged(yolo_detections, "yolo", Weights)
  /\ detectron2_detections'
       = Tagged(detectron2_detections, "detectron2", Weights)
  /\ floorplan_detections'
       = Tagged(floorplan_detections, "floorplan", Weights)
  /\ UNCHANGED weight_arg

\* lines 163-190: all_detections is a new list of new dicts {**det, ...},
\* sorted in place; the argument lists, their records and the mapping are
\* only read
KeepsArguments ==
  UNCHANGED arguments

\* lines 155-193: tag, flatten, return [] when there is nothing, sort
Prepare ==
  /\ pc = "call"
  /\ IF \/ TaggingRaises(yolo_detections, "yolo", Weights)
        \/ TaggingRaises(detectron2_detections, "detectron2", Weights)
        \/ TaggingRaises(floorplan_detections, "floorplan", Weights)
       THEN /\ RaiseKeyError
            /\ UNCHANGED all_detections
       ELSE LET flat == Flattened
            IN  IF flat = <<>>
                  THEN /\ pc' = "returned"
                       /\ UNCHANGED all_detections
                  ELSE /\ pc' = "outer"
                       /\ all_detections' = SortDesc(flat, Len(flat))
  /\ KeepsArguments
  /\ UNCHANGED <<parked, used_indices, merged_detections, merged_det,
                 members, i, j, summary>>

\* lines 195-197: i in used_indices, continue
OuterSkip ==
  /\ pc = "outer"
  /\ i <= Len(all_detections)
  /\ i \in used_indices
  /\ i' = i + 1
  /\ UNCHANGED <<inputs, all_detections, used_indices, merged_detections,
                 merged_det, members, j, pc, summary>>

\* lines 199-215: seed a cluster with all_detections[i]; the inner loop
\* passes over the positions j <= i without effect and stands at i + 1.
\* det1['bbox'] at line 204 raises when the seed has no 'bbox'.
StartCluster ==
  /\ pc = "outer"
  /\ i <= Len(all_detections)
  /\ i \notin used_indices
  /\ IF "bbox" \notin DOMAIN all_detections[i]
       THEN /\ RaiseKeyError
            /\ UNCHANGED <<merged_det, used_indices, members, j>>
       ELSE /\ merged_det' = NewCluster(all_detections[i])
            /\ used_indices' = used_indices \cup {i}
            /\ members' = Append(members, <<i>>)
            /\ j' = i + 1
            /\ pc' = "inner"
  /\ UNCHANGED <<inputs, all_detections, merged_detections, i, summary>>

\* Matches with any overlap at all instead of iou > iou_threshold
MatchesAnyOverlap(det1, jj) ==
  /\ jj \notin used_indices
  /\ are_same_class(det1.class_name, all_detections[jj].class_name)
  /\ FracGT(calculate_iou(det1.bbox, all_detections[jj].bbox), <<0, 1>>)

\* Matches for the position right behind the seed only (the inner loop
\* left at the first candidate that does not match)
MatchesNextOnly(det1, jj) ==
  /\ jj = i + 1
  /\ jj \notin used_indices
  /\ are_same_class(det1.class_name, all_detections[jj].class_name)
  /\ FracGT(calculate_iou(det1.bbox, all_detections[jj].bbox), iou_threshold)

\* Matches comparing the candidate with every member the cluster has, not
\* with the seed only
MatchesAnyMember(det1, jj) ==
  /\ jj \notin used_indices
  /\ \E m \in 1..Len(members[Len(members)]) :
        LET member == all_detections[members[Len(members)][m]]
        IN  /\ are_same_class(member.class_name, all_detections[jj].class_name)
            /\ FracGT(calculate_iou(member.bbox, all_detections[jj].bbox),
                      iou_threshold)

\* lines 213-224: the conditions under which position j is absorbed
Matches(det1, jj) ==
  /\ jj \notin used_indices
  /\ are_same_class(det1.class_name, all_detections[jj].class_name)
  /\ FracGT(calculate_iou(det1.bbox, all_detections[jj].bbox), iou_threshold)

\* lines 213-222: det2['bbox'] is read, and raises when missing, for a
\* position that is not used and has the seed's class
CompareRaises(det1, jj) ==
  /\ jj \notin used_indices
  /\ are_same_class(det1.class_name, all_detections[jj].class_name)
  /\ "bbox" \notin DOMAIN all_detections[jj]

\* lines 214-224: position j is used, of another class, or overlaps too
\* little; or its 'bbox' is missing where line 222 reads it
InnerSkip ==
  /\ pc = "inner"
  /\ j <= Len(all_detections)
  /\ IF CompareRaises(all_detections[i], j)
       THEN /\ RaiseKeyError
            /\ UNCHANGED j
       ELSE /\ ~Matches(all_detections[i], j)
            /\ j' = j + 1
            /\ UNCHANGED pc
  /\ UNCHANGED <<inputs, all_detections, used_indices, merged_detections,
                 merged_det, members, i, summary>>

\* lines 224-240: absorb all_detections[j]
Absorb ==
  /\ pc = "inner"
  /\ j <= Len(all_detections)
  /\ ~CompareRaises(all_detections[i], j)
  /\ Matches(all_detections[i], j)
  /\ merged_det' = Absorbed(merged_det, all_detections[j])
  /\ used_indices' = used_indices \cup {j}
  /\ members' = [members EXCEPT ![Len(members)] = Append(@, j)]
  /\ j' = j + 1
  /\ UNCHANGED <<inputs, all_detections, merged_detections, i, pc, summary>>

\* lines 242-246: the inner loop is over; the dict the code finishes is the
\* one it appends
Finalize ==
  /\ pc = "inner"
  /\ j > Len(all_detections)
  /\ merged_det' = Finalized(merged_det)
  /\ merged_detections' = Append(merged_detections, merged_det')
  /\ i' = i + 1
  /\ pc' = "outer"
  /\ UNCHANGED <<inputs, all_detections, used_indices, members, j, summary>>

\* line 248
Return ==
  /\ pc = "outer"
  /\ i > Len(all_detections)
  /\ pc' = "returned"
  /\ UNCHANGED <<inputs, all_detections, used_indices, merged_detections,
                 merged_det, members, i, j, summary>>

\* get_combined_summary(merged_detections), as main.py 512 calls it; a
\* KeyError it raises ends the call without a summary
Summarize ==
  /\ pc = "returned"
  /\ \E result \in {get_combined_summary(merged_detections)} :
        IF Raised(result)
          THEN /\ RaiseKeyError
               /\ UNCHANGED summary
          ELSE /\ summary' = result
               /\ pc' = "done"
  /\ UNCHANGED <<inputs, all_detections, used_indices, merged_detections,
                 merged_det, members, i, j>>

\* the running call as a suspended call
Suspended ==
       [yolo_detections |-> yolo_detections,
        detectron2_detections |-> detectron2_detections,
        floorplan_detections |-> floorplan_detections,
        weight_arg |-> weight_arg, all_detections |-> all_detections,
        used_indices |-> used_indices,
        merged_detections |-> merged_detections,
        merged_det |-> merged_det, members |-> members, i |-> i,
        j |-> j, pc |-> pc, summary |-> summary]

\* Switch with one consumed set for both calls, as a module-level set
\* would be
SwitchSharingUsed ==
  /\ parked.pc # "none"
  /\ parked' = Suspended
  /\ yolo_detections' = parked.yolo_detections
  /\ detectron2_detections' = parked.detectron2_detections
  /\ floorplan_detections' = parked.floorplan_detections
  /\ weight_arg' = parked.weight_arg
  /\ all_detections' = parked.all_detections
  /\ merged_detections' = parked.merged_detections
  /\ merged_det' = parked.merged_det
  /\ members' = parked.members
  /\ i' = parked.i
  /\ j' = parked.j
  /\ pc' = parked.pc
  /\ summary' = parked.summary
  /\ UNCHANGED used_indices

\* the interpreter suspends the running call and resumes the other one:
\* the arguments and the locals (all_detections of line 163, the default
\* confidence_weight of lines 155-160, merged_detections and used_indices
\* of lines 192-193, merged_det, the loop positions) belong to the frame of
\* a call and go with it; the module has no global that a call writes
Switch ==
  /\ parked.pc # "none"
  /\ parked' = Suspended
  /\ yolo_detections' = parked.yolo_detections
  /\ detectron2_detections' = parked.detectron2_detections
  /\ floorplan_detections' = parked.floorplan_detections
  /\ weight_arg' = parked.weight_arg
  /\ all_detections' = parked.all_detections
  /\ used_indices' = parked.used_indices
  /\ merged_detections' = parked.merged_detections
  /\ merged_det' = parked.merged_det
  /\ members' = parked.members
  /\ i' = parked.i
  /\ j' = parked.j
  /\ pc' = parked.pc
  /\ summary' = parked.summary

Next ==
  \/ Prepare
  \/ OuterSkip
  \/ StartCluster
  \/ InnerSkip
  \/ Absorb
  \/ Finalize
  \/ Return
  \/ Summarize

Spec ==
  Init /\ [][Next]_vars

SpecPair ==
  InitPairs /\ [][Next]_vars

SpecKeyError ==
  InitKeyError /\ [][Next]_vars

SpecScores ==
  InitScores /\ [][Next]_vars

SpecWeights ==
  InitWeights /\ [][Next]_vars

\* a step of the running call, or a switch to the other call
NextTwoCalls ==
  \/ Next
  \/ Switch

SpecTwoCalls ==
  InitTwoCalls /\ [][NextTwoCalls]_vars

SpecOrder ==
  InitOrder /\ [][Next]_vars

SpecMean ==
  InitMean /\ [][Next]_vars

\* ------------------------------------------------------------------------
\* Properties

\* merge_detections has returned
Returned ==
  pc \in {"returned", "done"}

NoDuplicates(s) ==
  \A a, b \in 1..Len(s) : a # b => s[a] # s[b]

\* the detections a finished or unfinished cluster k took
MemberDets(k) ==
  [m \in 1..Len(members[k]) |-> all_detections[members[k][m]]]

\* the raw confidences, in hundredths, of the first n of some detections
RECURSIVE SumConfidences(_, _)
SumConfidences(dets, n) ==
  IF n = 0 THEN 0 ELSE dets[n].confidence + SumConfidences(dets, n - 1)

\* the double conf = <<num, den, ulps>> lies at most maxUlps doubles from
\* the double nearest to the exact mean total/n of n confidences that add
\* up to total hundredths
NearMean(conf, total, n, maxUlps) ==
  /\ conf[1] * (100 * n) = total * conf[2]
  /\ conf[3] >= -maxUlps
  /\ conf[3] <= maxUlps

\* two input detections that the fuser would put together
Mergeable(a, b) ==
  /\ Canonical[a.class_name] = Canonical[b.class_name]
  /\ FracGT(calculate_iou(a.bbox, b.bbox), iou_threshold)

\* C1: in every returned cluster `sources` holds each source id at most
\* once.  The code has no such guard: two overlapping detections of one
\* class from the same list are absorbed into one cluster.
C1_SourcesDistinct ==
  Returned =>
    \A k \in 1..Len(merged_detections) :
       NoDuplicates(merged_detections[k].sources)

\* C2: exactly two input detections, from different sources, of the same
\* canonical class and with IoU above the threshold give one cluster:
\* sources are seed then other, confidence is the mean of the two raw
\* confidences as doubles give it, (seed + other) / 2 with the sum and the
\* quotient rounded, which is the double nearest to the exact mean or a
\* neighbour of that double; class_name is the title-cased canonical
\* class, and bbox is the seed's, the seed being one whose weighted
\* confidence is not lower.
C2_TwoFused ==
  (/\ Returned
   /\ Len(Flattened) = 2
   /\ Flattened[1].source # Flattened[2].source
   /\ Mergeable(Flattened[1], Flattened[2]))
  =>
  /\ Len(merged_detections) = 1
  /\ NearMean(merged_detections[1].confidence,
              Flattened[1].confidence + Flattened[2].confidence, 2, 1)
  /\ merged_detections[1].class_name
       = StrTitle(Canonical[Flattened[1].class_name])
  /\ merged_detections[1].num_models_detected = 2
  /\ \E s \in 1..2 :
        LET seed == Flattened[s]
            other == Flattened[3 - s]
        IN  /\ seed.weighted_confidence >= other.weighted_confidence
            /\ merged_detections[1].sources = <<seed.source, other.source>>
            /\ merged_detections[1].bbox = seed.bbox
            /\ merged_detections[1].confidence
                 = FloatMean(<<seed.confidence, other.confidence>>)

\* C2 witness: a "Door" of confidence 0.90 on one box and a "door " of
\* confidence 0.80 on an overlapping box, from two sources, are returned as
\* one "Door" on the box of the first with sources in that order and the
\* confidence 0.8500000000000001, the double next above 0.85
C2_Witness ==
  /\ Returned
  /\ Len(Flattened) = 2
  /\ Mergeable(Flattened[1], Flattened[2])
  /\ Flattened[1].source = "yolo"
  /\ Flattened[2].source = "detectron2"
  /\ Flattened[1].confidence = 90
  /\ Flattened[2].confidence = 80
  /\ Flattened[1].class_name # Flattened[2].class_name
  /\ Flattened[1].bbox # Flattened[2].bbox
  /\ Len(merged_detections) = 1
  /\ merged_detections[1].class_name = <<"D", "o", "o", "r">>
  /\ merged_detections[1].sources = <<"yolo", "detectron2">>
  /\ merged_detections[1].bbox = Flattened[1].bbox
  /\ merged_detections[1].confidence = <<17, 20, 1>>

\* C3: every detection in a cluster has the canonical class of the
\* cluster's seed, the cluster is reported under that class, and two
\* detections of different canonical classes are returned as two clusters
\* whatever their boxes.
C3_ClassMismatchSeparates ==
  /\ \A k \in 1..Len(members) :
        \A m \in 1..Len(members[k]) :
           Canonical[MemberDets(k)[m].class_name]
             = Canonical[MemberDets(k)[1].class_name]
  /\ Returned =>
       \A k \in 1..Len(merged_detections) :
          merged_detections[k].class_name
            = StrTitle(Canonical[MemberDets(k)[1].class_name])
  /\ (/\ Returned
      /\ Len(Flattened) = 2
      /\ Canonical[Flattened[1].class_name]
           # Canonical[Flattened[2].class_name])
     => Len(merged_detections) = 2

\* C3 witness: two detections on the same box, of two classes, from two
\* sources, returned as two clusters
C3_Witness ==
  /\ Returned
  /\ Len(Flattened) = 2
  /\ Flattened[1].source # Flattened[2].source
  /\ Flattened[1].bbox = Flattened[2].bbox
  /\ Canonical[Flattened[1].class_name]
       # Canonical[Flattened[2].class_name]
  /\ Len(merged_detections) = 2
  /\ merged_detections[1].class_name # merged_detections[2].class_name

\* C4: a cluster's bbox is its seed's bbox, while it is built and when it
\* is returned, and no detection of the cluster has a higher weighted
\* confidence than the seed.
C4_SeedBox ==
  /\ \A k \in 1..Len(members) :
        \A m \in 1..Len(members[k]) :
           MemberDets(k)[1].weighted_confidence
             >= MemberDets(k)[m].weighted_confidence
  /\ \A k \in 1..Len(merged_detections) :
        merged_detections[k].bbox = MemberDets(k)[1].bbox
  /\ pc = "inner" => merged_det.bbox = MemberDets(Len(members))[1].bbox

\* C4 witness: a returned cluster of three detections on three boxes whose
\* seed has a strictly higher weighted confidence than another member
C4_Witness ==
  /\ Returned
  /\ \E k \in 1..Len(merged_detections) :
        /\ Len(members[k]) = 3
        /\ MemberDets(k)[1].bbox # MemberDets(k)[2].bbox
        /\ MemberDets(k)[1].bbox # MemberDets(k)[3].bbox
        /\ MemberDets(k)[1].weighted_confidence
             > MemberDets(k)[3].weighted_confidence

\* C5: a returned cluster's confidence is the arithmetic mean of the raw
\* confidences of all detections absorbed into it, up to the rounding of
\* doubles (at most two doubles from the double nearest to the mean).  The
\* code averages the values of source_confidences, where a second
\* detection of a source overwrites the first.
C5_MeanOfAbsorbed ==
  Returned =>
    \A k \in 1..Len(merged_detections) :
       NearMean(merged_detections[k].confidence,
                SumConfidences(MemberDets(k), Len(members[k])),
                Len(members[k]), 2)

\* the sum of the integers d[s] over a set of keys
RECURSIVE SumValues(_, _)
SumValues(d, keys) ==
  IF keys = {}
    THEN 0
    ELSE LET s == CHOOSE s \in keys : TRUE
         IN  d[s] + SumValues(d, keys \ {s})

\* the sum of the counts of a dict of the summary
SumOf(d) ==
  SumValues(d, DOMAIN d)

\* C6: in the summary of a fused output the per-class counts and the
\* per-source-count buckets each add up to total_detections, which is the
\* length of the merged list.
C6_SummaryTotals ==
  pc = "done" =>
    /\ summary.total_detections = Len(merged_detections)
    /\ SumOf(summary.detections_by_class) = summary.total_detections
    /\ SumOf(summary.detections_by_source_count) = summary.total_detections

\* C6 witness: a summary of two clusters of one class, one of them merged
C6_Witness ==
  /\ pc = "done"
  /\ summary.total_detections = 2
  /\ Cardinality(DOMAIN summary.detections_by_class) = 1
  /\ summary.detections_by_source_count[1] = 1
  /\ summary.detections_by_source_count[2] = 1

\* C7: every returned cluster has between 1 and 3 sources and the summary's
\* detections_by_source_count has exactly the keys 1, 2 and 3.  Same-source
\* absorption (C1) lets a cluster take four sources.
C7_AtMostThreeSources ==
  /\ Returned =>
       \A k \in 1..Len(merged_detections) :
          /\ Len(merged_detections[k].sources) >= 1
          /\ Len(merged_detections[k].sources) <= 3
  /\ pc = "done" => DOMAIN summary.detections_by_source_count = {1, 2, 3}

\* C8: model_contributions[s] is the number of clusters whose sources
\* include s.  A source listed twice in a cluster (C1) is counted twice.
C8_ContributionsCountClusters ==
  pc = "done" =>
    \A s \in {"yolo", "detectron2", "floorplan"} :
       summary.model_contributions[s]
         = Cardinality({k \in 1..Len(merged_detections) :
              \E n \in 1..Len(merged_detections[k].sources) :
                 merged_detections[k].sources[n] = s})

\* C9: in every returned cluster sources is non-empty and
\* num_models_detected is the number of its entries.
C9_NumModels ==
  Returned =>
    \A k \in 1..Len(merged_detections) :
       /\ Len(merged_detections[k].sources) >= 1
       /\ merged_detections[k].num_models_detected
            = Len(merged_detections[k].sources)
       /\ Len(merged_detections[k].sources) = Len(members[k])

\* C9 witness: a returned cluster that lists one source twice
C9_Witness ==
  /\ Returned
  /\ \E k \in 1..Len(merged_detections) :
        /\ merged_detections[k].num_models_detected = 3
        /\ ~NoDuplicates(merged_detections[k].sources)

\* no two input detections are of one canonical class with IoU above the
\* threshold
NothingMergeable ==
  \A a, b \in 1..Len(Flattened) :
     a # b => ~Mergeable(Flattened[a], Flattened[b])

\* C10: when no two input detections are mergeable, there are as many
\* returned clusters as input detections, each with num_models_detected 1.
C10_AllSingletons ==
  (Returned /\ NothingMergeable) =>
    /\ Len(merged_detections) = Len(Flattened)
    /\ \A k \in 1..Len(merged_detections) :
          /\ merged_detections[k].num_models_detected = 1
          /\ Len(merged_detections[k].sources) = 1

\* C10 witness: a single source reports two detections of one class whose
\* boxes overlap, but not above the threshold; both are returned
C10_Witness ==
  /\ Returned
  /\ NothingMergeable
  /\ Len(yolo_detections) = 2
  /\ Len(Flattened) = 2
  /\ yolo_detections[1].class_name = yolo_detections[2].class_name
  /\ FracGT(calculate_iou(yolo_detections[1].bbox, yolo_detections[2].bbox),
            <<0, 1>>)
  /\ Len(merged_detections) = 2

\* the input records in insertion order
InputDetections ==
  yolo_detections \o detectron2_detections \o floorplan_detections

\* x2 <= x1 or y2 <= y1
Degenerate(box) ==
  box.x2 <= box.x1 \/ box.y2 <= box.y1

\* C11: a detection with a degenerate bbox has IoU 0 with every box of the
\* input, in both argument orders, so that no threshold >= 0 lets it merge;
\* it is in no cluster with another detection, it is returned as a cluster
\* of its own, and the call raises nothing.
C11_DegenerateAlone ==
  /\ pc # "error"
  /\ \A a, b \in 1..Len(InputDetections) :
        Degenerate(InputDetections[a].bbox) =>
          /\ calculate_iou(InputDetections[a].bbox, InputDetections[b].bbox)[1] = 0
          /\ calculate_iou(InputDetections[b].bbox, InputDetections[a].bbox)[1] = 0
  /\ \A k \in 1..Len(members) :
        (\E m \in 1..Len(members[k]) : Degenerate(MemberDets(k)[m].bbox))
          => Len(members[k]) = 1
  /\ Returned =>
       \A p \in 1..Len(all_detections) :
          Degenerate(all_detections[p].bbox) =>
            \E k \in 1..Len(merged_detections) :
               /\ members[k] = <<p>>
               /\ merged_detections[k].bbox = all_detections[p].bbox
               /\ merged_detections[k].num_models_detected = 1

\* C11 witness: two sources report the same box, inverted in both
\* directions, and two clusters are returned
C11_Witness ==
  /\ Returned
  /\ Len(yolo_detections) = 1
  /\ Len(detectron2_detections) = 1
  /\ yolo_detections[1].bbox = detectron2_detections[1].bbox
  /\ yolo_detections[1].bbox.x2 < yolo_detections[1].bbox.x1
  /\ yolo_detections[1].bbox.y2 < yolo_detections[1].bbox.y1
  /\ Len(merged_detections) = 2

\* C12: with three empty lists merge_detections returns the empty list,
\* raising nothing, and the summary of it has total_detections 0, no class
\* count, and 0 in every source-count bucket and every model contribution.
C12_EmptyInput ==
  InputDetections = <<>> =>
    /\ pc \in {"call", "returned", "done"}
    /\ merged_detections = <<>>
    /\ pc = "done" =>
         /\ summary.total_detections = 0
         /\ DOMAIN summary.detections_by_class = {}
         /\ summary.unique_classes = 0
         /\ DOMAIN summary.detections_by_source_count = {1, 2, 3}
         /\ \A n \in {1, 2, 3} : summary.detections_by_source_count[n] = 0
         /\ DOMAIN summary.model_contributions
              = {"yolo", "detectron2", "floorplan"}
         /\ \A s \in {"yolo", "detectron2", "floorplan"} :
               summary.model_contributions[s] = 0

\* C12 witness: the summary of the fusion of three empty lists
C12_Witness ==
  /\ InputDetections = <<>>
  /\ pc = "done"
  /\ summary.detection_details = <<>>

\* some input record has no 'confidence' or no 'bbox'
LacksRequired ==
  \E k \in 1..Len(InputDetections) :
     \/ "confidence" \notin DOMAIN InputDetections[k]
     \/ "bbox" \notin DOMAIN InputDetections[k]

\* C13: when an input record lacks 'confidence' or 'bbox' the call never
\* returns a list, and where it stops it has stopped with an error.
C13_MissingFieldFails ==
  LacksRequired =>
    /\ ~Returned
    /\ ~(ENABLED Next) => pc = "error"

\* C13 witness: every record has a confidence, one has no bbox, and the
\* error comes after a first cluster was finished
C13_Witness ==
  /\ pc = "error"
  /\ LacksRequired
  /\ \A k \in 1..Len(InputDetections) :
        "confidence" \in DOMAIN InputDetections[k]
  /\ Len(merged_detections) = 1

\* the confidence_weight passed has no entry for source s
NoWeightFor(s) ==
  /\ weight_arg # {}
  /\ s \notin DOMAIN TheValue(weight_arg)

\* the input list of source s
InputOf(s) ==
  CASE s = "yolo" -> yolo_detections
    [] s = "detectron2" -> detectron2_detections
    [] s = "floorplan" -> floorplan_detections

\* C14 as claimed: a confidence_weight without an entry for one of the
\* three sources makes the call fail.  The code looks a weight up only
\* inside the loop over that source's list: with an empty list it returns.
C14_MissingWeightFails ==
  (\E s \in {"yolo", "detectron2", "floorplan"} : NoWeightFor(s))
    => ~Returned

\* C14 amended: a confidence_weight without an entry for a source whose
\* input list is not empty makes the call fail with an error before the
\* list is sorted, and no weight other than the mapping's own is ever used.
C14_UsedWeightMissingFails ==
  /\ (\E s \in {"yolo", "detectron2", "floorplan"} :
         NoWeightFor(s) /\ InputOf(s) # <<>>)
       => /\ pc \in {"call", "error"}
          /\ all_detections = <<>>
          /\ ~(ENABLED Next) => pc = "error"
  /\ \A p \in 1..Len(all_detections) :
        /\ ~NoWeightFor(all_detections[p].source)
        /\ all_detections[p].weighted_confidence
             = FloatProduct(
                 all_detections[p].confidence,
                 IF weight_arg = {}
                   THEN confidence_weight[all_detections[p].source]
                   ELSE TheValue(weight_arg)[all_detections[p].source])

\* C14 witness: yolo has a weight, detectron2 has none, both report
C14_Witness ==
  /\ pc = "error"
  /\ ~NoWeightFor("yolo")
  /\ NoWeightFor("detectron2")
  /\ yolo_detections # <<>>
  /\ detectron2_detections # <<>>

\* C15: two calls of merge_detections on equal arguments (the three lists
\* and confidence_weight; iou_threshold is the default in both), whatever
\* the interleaving of their steps, return equal lists: the same clusters
\* in the same order with the same value in every field.
C15_Deterministic ==
  (/\ Returned
   /\ parked.pc \in {"returned", "done"}
   /\ parked.yolo_detections = yolo_detections
   /\ parked.detectron2_detections = detectron2_detections
   /\ parked.floorplan_detections = floorplan_detections
   /\ parked.weight_arg = weight_arg)
  => parked.merged_detections = merged_detections

\* C15 witness: both calls were given a yolo detection of confidence 0.90
\* and a detectron2 detection of confidence 1.00 far from it, and both have
\* returned two clusters, the detectron2 one first
C15_Witness ==
  /\ Returned
  /\ parked.pc \in {"returned", "done"}
  /\ parked.yolo_detections = yolo_detections
  /\ parked.detectron2_detections = detectron2_detections
  /\ Len(yolo_detections) = 1
  /\ Len(detectron2_detections) = 1
  /\ yolo_detections[1].confidence = 90
  /\ detectron2_detections[1].confidence = 100
  /\ Len(merged_detections) = 2
  /\ merged_detections[1].sources = <<"detectron2">>
  /\ merged_detections[2].sources = <<"yolo">>
  /\ Len(parked.merged_detections) = 2

\* the boxes of the input records
InputBoxes ==
  { InputDetections[p].bbox : p \in 1..Len(InputDetections) }

\* C16: calculate_iou gives the same value in both argument orders for
\* every two boxes of the input, well-formed, degenerate or inverted.
C16_IouSymmetric ==
  \A a, b \in InputBoxes :
     calculate_iou(a, b) = calculate_iou(b, a)

\* C16 witness: two different overlapping boxes, one well-formed and one
\* not covering it, were compared and fused into one cluster
C16_Witness ==
  /\ Returned
  /\ Len(yolo_detections) = 1
  /\ Len(detectron2_detections) = 1
  /\ yolo_detections[1].bbox # detectron2_detections[1].bbox
  /\ calculate_iou(yolo_detections[1].bbox, detectron2_detections[1].bbox)[1] > 0
  /\ Len(merged_detections) = 1
  /\ Len(members[1]) = 2

\* (x2 - x1) * (y2 - y1), the area as lines 35-36 compute it
Area(box) ==
  (box.x2 - box.x1) * (box.y2 - box.y1)

\* x1 < x2 and y1 < y2
WellFormed(box) ==
  box.x1 < box.x2 /\ box.y1 < box.y2

\* the value is exactly 1
IsOne(iou) ==
  iou[2] # 0 /\ iou[1] = iou[2]

\* C17 as stated: calculate_iou(a, a) is 1 for every input box whose area
\* (x2 - x1) * (y2 - y1) is positive.
C17_PositiveAreaReflexive ==
  \A a \in InputBoxes :
     Area(a) > 0 => IsOne(calculate_iou(a, a))

\* C17: calculate_iou(a, a) is 1 for every input box with x1 < x2 and
\* y1 < y2, and 0 for every other box, a box inverted in both directions
\* (whose product (x2 - x1) * (y2 - y1) is positive) included.
C17_WellFormedReflexive ==
  \A a \in InputBoxes :
     /\ WellFormed(a) => IsOne(calculate_iou(a, a))
     /\ ~WellFormed(a) => calculate_iou(a, a)[1] = 0

\* C17 witness: both sources report one well-formed box, and the two
\* detections were fused
C17_Witness ==
  /\ Returned
  /\ Len(yolo_detections) = 1
  /\ Len(detectron2_detections) = 1
  /\ yolo_detections[1].bbox = detectron2_detections[1].bbox
  /\ WellFormed(yolo_detections[1].bbox)
  /\ Len(merged_detections) = 1
  /\ merged_detections[1].num_models_detected = 2

\* the unit cells of the plane that a box with integer corners covers
Cells(box) ==
  { <<x, y>> \in (box.x1 .. box.x2 - 1) \X (box.y1 .. box.y2 - 1) : TRUE }

\* the intersection rectangle is empty: some right edge lies left of some
\* left edge, or some bottom edge above some top edge
EmptyIntersection(a, b) ==
  \E p, q \in {a, b} : p.x2 < q.x1 \/ p.y2 < q.y1

\* C18: for every two input boxes the value of calculate_iou is a quotient
\* between 0 and 1; it is 0 when the intersection rectangle is empty or the
\* union area is 0, and otherwise it is the number of unit cells the boxes
\* share divided by area(a) + area(b) minus that number, which is the
\* number of cells that either box covers.
C18_IouRange ==
  \A a, b \in InputBoxes :
     LET iou    == calculate_iou(a, b)
         shared == Cardinality(Cells(a) \cap Cells(b))
         union  == Area(a) + Area(b) - shared
     IN  /\ iou[2] > 0
         /\ 0 <= iou[1]
         /\ iou[1] <= iou[2]
         /\ IF EmptyIntersection(a, b) \/ union = 0
              THEN iou[1] = 0
              ELSE /\ FracEQ(iou, <<shared, union>>)
                   /\ union = Cardinality(Cells(a) \cup Cells(b))

\* C18 witness: two boxes that share a part of their area, less than the
\* threshold asks for, were compared and left in separate clusters
C18_Witness ==
  /\ Returned
  /\ Len(yolo_detections) = 1
  /\ Len(detectron2_detections) = 1
  /\ LET iou == calculate_iou(yolo_detections[1].bbox,
                              detectron2_detections[1].bbox)
     IN  0 < iou[1] /\ iou[1] < iou[2]
  /\ Len(merged_detections) = 2

\* the class names of the input records
InputLabels ==
  { InputDetections[p].class_name : p \in 1..Len(InputDetections) }

\* class names and the canonical names the specification gives for them:
\* five matched by a pattern rule, three by the exact table, two by nothing
ListedCanonical ==
  {
    <<<<"B", "e", "d", "r", "o", "o", "m", " ", "2">>,
      <<"b", "e", "d", "r", "o", "o", "m">>>>,
    <<<<"M", "a", "s", "t", "e", "r", " ", "B", "e", "d", "r", "o", "o", "m">>,
      <<"b", "e", "d", "r", "o", "o", "m">>>>,
    <<<<"W", "C">>,
      <<"t", "o", "i", "l", "e", "t">>>>,
    <<<<"L", "i", "v", "i", "n", "g", " ", "R", "o", "o", "m">>,
      <<"l", "i", "v", "i", "n", "g", " ", "r", "o", "o", "m">>>>,
    <<<<"c", "o", "u", "c", "h">>,
      <<"s", "o", "f", "a">>>>,
    <<<<"f", "r", "i", "d", "g", "e">>,
      <<"r", "e", "f", "r", "i", "g", "e", "r", "a", "t", "o", "r">>>>,
    <<<<"s", "t", "a", "i", "r", "c", "a", "s", "e">>,
      <<"s", "t", "a", "i", "r", "s">>>>,
    <<<<"c", "o", "u", "n", "t", "e", "r", "t", "o", "p">>,
      <<"c", "o", "u", "n", "t", "e", "r">>>>,
    <<<<"G", "a", "r", "a", "g", "e">>,
      <<"g", "a", "r", "a", "g", "e">>>>,
    <<<<" ", "C", "a", "r", " ", "P", "o", "r", "t">>,
      <<"c", "a", "r", " ", "p", "o", "r", "t">>>> }

\* pairs of class names that differ in case and surrounding whitespace only
Spellings ==
  {
    <<<<"W", "C">>,
      <<" ", "w", "c", " ">>>>,
    <<<<"c", "o", "u", "c", "h">>,
      <<"C", "O", "U", "C", "H">>>>,
    <<<<"f", "r", "i", "d", "g", "e">>,
      <<"F", "r", "i", "d", "g", "e", " ">>>>,
    <<<<"D", "o", "o", "r">>,
      <<"d", "o", "o", "r", " ">>>>,
    <<<<"D", "o", "o", "r">>,
      <<"d", "o", "o", "r", "\f">>>> }

\* C19: every input class name that the specification lists has the listed
\* canonical name; two input class names that differ only in case and
\* surrounding whitespace have one canonical name, and two detections that
\* carry them on one box are returned as one cluster.
C19_ListedNames ==
  /\ \A e \in ListedCanonical :
        e[1] \in InputLabels => Canonical[e[1]] = e[2]
  /\ \A e \in Spellings :
        (e[1] \in InputLabels /\ e[2] \in InputLabels) =>
          /\ Canonical[e[1]] = Canonical[e[2]]
          /\ are_same_class(e[1], e[2])
          /\ Returned => Len(merged_detections) = 1

\* C19 witness: "WC" from one source and " wc " from the other were fused
\* into one cluster named after the canonical name "toilet"
C19_Witness ==
  /\ Returned
  /\ Len(yolo_detections) = 1
  /\ Len(detectron2_detections) = 1
  /\ yolo_detections[1].class_name = <<"W", "C">>
  /\ detectron2_detections[1].class_name = <<" ", "w", "c", " ">>
  /\ Len(merged_detections) = 1
  /\ merged_detections[1].class_name = <<"T", "o", "i", "l", "e", "t">>

\* the rules, by position in pattern_mappings, with a keyword contained in s
RulesMatching(s) ==
  { r \in 1..Len(pattern_mappings) :
      \E w \in 1..Len(pattern_mappings[r][1]) :
         StrContains(s, pattern_mappings[r][1][w]) }

\* every input class name lower-cased and trimmed, and the rules matching
\* it, evaluated once
LoweredTrimmed ==
  [class_name \in Labels \cup OneLabel \cup RuleLabels |->
     StrStrip(StrLower(class_name))]

RulesMatchingName ==
  [class_name \in Labels \cup OneLabel \cup RuleLabels |->
     RulesMatching(LoweredTrimmed[class_name])]

\* class names with keywords of two rules and the canonical name of the
\* earlier rule
EarlierRuleCanonical ==
  {
    <<<<"S", "t", "u", "d", "y", " ", "L", "o", "u", "n", "g", "e">>,
      <<"l", "i", "v", "i", "n", "g", " ", "r", "o", "o", "m">>>>,
    <<<<"K", "i", "t", "c", "h", "e", "n", " ", "S", "t", "o", "r", "a", "g", "e">>,
      <<"k", "i", "t", "c", "h", "e", "n">>>>,
    <<<<"E", "n", "t", "r", "y", " ", "D", "o", "o", "r">>,
      <<"b", "e", "d", "r", "o", "o", "m">>>>,
    <<<<"S", "o", "f", "a", " ", "B", "e", "d">>,
      <<"s", "o", "f", "a">>>>,
    <<<<"D", "i", "n", "i", "n", "g", " ", "T", "a", "b", "l", "e">>,
      <<"d", "i", "n", "i", "n", "g", " ", "r", "o", "o", "m">>>>,
    <<<<"P", "l", "a", "n", "t", " ", "O", "f", "f", "i", "c", "e">>,
      <<"r", "o", "o", "m">>>> }

\* C20: for every input class name with a keyword of some rule the
\* canonical name is that of the matching rule earliest in list order,
\* whatever the order of the keywords in the name; only a name matching no
\* rule gets the exact table's entry, or itself lower-cased and trimmed.
C20_FirstMatchWins ==
  /\ \A c \in InputLabels :
        LET normalized == LoweredTrimmed[c]
            matching == RulesMatchingName[c]
            exact == {e \in 1..Len(exact_synonyms) :
                        exact_synonyms[e][1] = normalized}
        IN  /\ matching # {} =>
                 \E r \in matching :
                    /\ \A q \in matching : r <= q
                    /\ Canonical[c] = pattern_mappings[r][2]
            /\ (matching = {} /\ exact # {}) =>
                 \E e \in exact : Canonical[c] = exact_synonyms[e][2]
            /\ (matching = {} /\ exact = {}) => Canonical[c] = normalized
  /\ \A e \in EarlierRuleCanonical :
        e[1] \in InputLabels => Canonical[e[1]] = e[2]

\* C20 witness: "Study Lounge", with the keyword of rule 9 before the
\* keyword of rule 4, was fused with "Living Room" of the other source
C20_Witness ==
  /\ Returned
  /\ Len(yolo_detections) = 1
  /\ Len(detectron2_detections) = 1
  /\ yolo_detections[1].class_name = <<"S", "t", "u", "d", "y", " ", "L", "o", "u", "n", "g", "e">>
  /\ detectron2_detections[1].class_name = <<"L", "i", "v", "i", "n", "g", " ", "R", "o", "o", "m">>
  /\ Cardinality(RulesMatchingName[yolo_detections[1].class_name]) = 2
  /\ Len(merged_detections) = 1
  /\ merged_detections[1].class_name = <<"L", "i", "v", "i", "n", "g", " ", "R", "o", "o", "m">>

\* the position in all_detections of the seed of cluster k
Seed(k) ==
  members[k][1]

\* C21: the clusters are emitted in the order in which their seeds stand in
\* the sorted list, and from one cluster to the next the weighted confidence
\* of the seed does not increase; merged_detections[k] is the cluster of
\* the k-th seed.
C21_SeedOrder ==
  /\ \A k, l \in 1..Len(members) :
        k < l =>
          /\ Seed(k) < Seed(l)
          /\ all_detections[Seed(k)].weighted_confidence
               >= all_detections[Seed(l)].weighted_confidence
  /\ \A k \in 1..Len(merged_detections) :
        /\ merged_detections[k].bbox = all_detections[Seed(k)].bbox
        /\ merged_detections[k].sources[1] = all_detections[Seed(k)].source

\* C21 witness: two clusters are returned whose seeds differ in weighted
\* confidence, the seed of the first having come later in the input
C21_Witness ==
  /\ Returned
  /\ Len(merged_detections) = 2
  /\ all_detections[Seed(1)].weighted_confidence
       > all_detections[Seed(2)].weighted_confidence
  /\ Flattened[1] = all_detections[Seed(2)]
  /\ Flattened[1] # all_detections[Seed(1)]

\* the elements of s with weighted confidence w, in the order of s
WithWeighted(s, w) ==
  SelectSeq(s, LAMBDA det : det.weighted_confidence = w)

\* C22: the detections of equal weighted confidence stand in the sorted
\* list in their insertion order (yolo, detectron2, floorplan, and by
\* position within a list); a cluster that holds two detections of equal
\* weighted confidence has the bbox of one that was inserted before every
\* different member of that weighted confidence.
C22_TiesByInsertion ==
  /\ pc \notin {"call", "error"} =>
       \A p \in 1..Len(Flattened) :
          LET w == Flattened[p].weighted_confidence
          IN  WithWeighted(all_detections, w) = WithWeighted(Flattened, w)
  /\ \A k \in 1..Len(merged_detections) :
        LET w    == all_detections[Seed(k)].weighted_confidence
            tied == WithWeighted(Flattened, w)
        IN  \A m \in 2..Len(members[k]) :
               LET det == all_detections[members[k][m]]
               IN  (det.weighted_confidence = w /\ det # all_detections[Seed(k)])
                     => \E a, b \in 1..Len(tied) :
                           /\ a < b
                           /\ tied[a] = all_detections[Seed(k)]
                           /\ tied[b] = det
                           /\ \A c \in 1..(a - 1) : tied[c] # det
                           /\ merged_detections[k].bbox = tied[a].bbox

\* C22 witness: a floorplan detection of confidence 1.0 (weight 0.9) ties
\* with an earlier detectron2 detection of confidence 0.9 on another box,
\* and the fused cluster has the detectron2 box
C22_Witness ==
  /\ Returned
  /\ yolo_detections = <<>>
  /\ Len(detectron2_detections) = 1
  /\ Len(floorplan_detections) = 1
  /\ detectron2_detections[1].confidence = 90
  /\ floorplan_detections[1].confidence = 100
  /\ detectron2_detections[1].bbox # floorplan_detections[1].bbox
  /\ Len(merged_detections) = 1
  /\ merged_detections[1].bbox = detectron2_detections[1].bbox
  /\ merged_detections[1].sources = <<"detectron2", "floorplan">>

\* the fuzzy_score values that the members of cluster k carry
MemberScores(k) ==
  { TheValue(MemberDets(k)[m].fuzzy_score) :
      m \in {m \in 1..Len(members[k]) : MemberDets(k)[m].fuzzy_score # {}} }

\* C23: the fuzzy_score of every returned cluster is None exactly when no
\* member of the cluster, seed included, carries a fuzzy_score, and is
\* otherwise the largest fuzzy_score that a member carries.
C23_MaxFuzzyScore ==
  \A k \in 1..Len(merged_detections) :
     LET scores == MemberScores(k)
         fuzzy  == merged_detections[k].fuzzy_score
     IN  /\ fuzzy = {} <=> scores = {}
         /\ fuzzy # {} =>
              /\ TheValue(fuzzy) \in scores
              /\ \A s \in scores : s <= TheValue(fuzzy)

\* C23 witness: a seed without a fuzzy_score absorbed a detection with the
\* higher and then one with the lower fuzzy_score
C23_Witness ==
  /\ Returned
  /\ Len(merged_detections) = 1
  /\ Len(members[1]) = 3
  /\ MemberDets(1)[1].fuzzy_score = {}
  /\ MemberDets(1)[2].fuzzy_score = {80}
  /\ MemberDets(1)[3].fuzzy_score = {70}
  /\ merged_detections[1].fuzzy_score = {80}

\* the class_id a cluster seeded by det reports (line 202)
ReportedClassId(det) ==
  IF "class_id" \in DOMAIN det THEN det.class_id ELSE {-1}

\* C27: every returned cluster has the bbox and the class_id of a member
\* whose raw confidence no member of the cluster exceeds.  The code seeds
\* by weighted confidence, and by insertion order among ties, so that a
\* floorplan detection of the highest raw confidence loses its box.
C27_KeepsHighestConfidence ==
  Returned =>
    \A k \in 1..Len(merged_detections) :
       \E m \in 1..Len(members[k]) :
          /\ \A n \in 1..Len(members[k]) :
                MemberDets(k)[n].confidence <= MemberDets(k)[m].confidence
          /\ merged_detections[k].bbox = MemberDets(k)[m].bbox
          /\ merged_detections[k].class_id = ReportedClassId(MemberDets(k)[m])

\* the list without the weighted confidences
Unweighted(dets) ==
  [p \in 1..Len(dets) |-> Without(dets[p], "weighted_confidence")]

\* the flattened detections as the mapping weights orders them
SortedUnder(weights) ==
  LET flat == Tagged(yolo_detections, "yolo", weights)
              \o Tagged(detectron2_detections, "detectron2", weights)
              \o Tagged(floorplan_detections, "floorplan", weights)
  IN  SortDesc(flat, Len(flat))

\* C24: the returned list is what merge_detections gives for the arguments,
\* and it is also what merge_detections gives under every other mapping
\* that puts the flattened detections in the same order; the confidence of
\* a cluster is the mean of its source_confidences as doubles give it
\* (their sum in the order of the sources, divided by their number), at
\* most two doubles from the double nearest to the exact mean, and each of
\* the source_confidences is the raw confidence of a member from that
\* source.
C24_WeightsOnlyOrder ==
  pc = "returned" =>
    /\ merged_detections
         = merge_detections(yolo_detections, detectron2_detections,
                            floorplan_detections, Weights)
    /\ \A w \in FullWeightMappings :
          Unweighted(SortedUnder(w)) = Unweighted(all_detections)
            => merge_detections(yolo_detections, detectron2_detections,
                                floorplan_detections, w)
                 = merged_detections
    /\ \A k \in 1..Len(merged_detections) :
          LET sc == merged_detections[k].source_confidences
              srcs == merged_detections[k].sources
          IN  /\ merged_detections[k].confidence = MeanOfValues(sc, srcs)
              /\ NearMean(merged_detections[k].confidence,
                          SumValues(sc, DOMAIN sc), Cardinality(DOMAIN sc), 2)
              /\ \A s \in DOMAIN sc :
                    \E m \in 1..Len(members[k]) :
                       /\ MemberDets(k)[m].source = s
                       /\ MemberDets(k)[m].confidence = sc[s]

\* C24 witness: the caller halves the weight of yolo and of detectron2, a
\* different mapping orders the detections the same way, and a yolo
\* detection was fused with a detectron2 detection of another confidence
C24_Witness ==
  /\ pc = "returned"
  /\ weight_arg = {[yolo |-> 5, detectron2 |-> 5, floorplan |-> 10]}
  /\ Unweighted(SortedUnder(confidence_weight)) = Unweighted(all_detections)
  /\ Len(yolo_detections) = 1
  /\ Len(detectron2_detections) = 1
  /\ yolo_detections[1].confidence # detectron2_detections[1].confidence
  /\ Len(merged_detections) = 1
  /\ merged_detections[1].confidence = <<19, 20, 0>>

\* C25: no step of merge_detections changes an argument: the three lists
\* keep their length, their order and their records, field by field (no
\* 'source' or 'weighted_confidence' key appears in a record of the
\* caller), and the confidence_weight of the caller stays as it was passed.
C25_ArgumentsUnchanged ==
  [][arguments' = arguments]_vars

\* C25 witness: the call has returned a fused cluster under a mapping of
\* the caller, the tagged copies carry 'source' and 'weighted_confidence',
\* and the record of the caller carries neither
C25_Witness ==
  /\ Returned
  /\ weight_arg # {}
  /\ DOMAIN TheValue(weight_arg) = {"yolo", "detectron2", "floorplan"}
  /\ Len(yolo_detections) >= 1
  /\ Len(merged_detections) = 1
  /\ merged_detections[1].num_models_detected = 2
  /\ {"source", "weighted_confidence"} \subseteq DOMAIN all_detections[1]
  /\ {"source", "weighted_confidence"} \cap DOMAIN yolo_detections[1] = {}

\* C26: whatever the interleaving of the steps of two calls on independent
\* inputs, each call that has returned holds the list that merge_detections
\* gives for its own arguments, each call still has the arguments it was
\* given, and the summary of a call is the summary of its own list.
C26_CallsIndependent ==
  /\ Returned =>
       merged_detections
         = merge_detections(yolo_detections, detectron2_detections,
                            floorplan_detections, Weights)
  /\ pc = "done" => summary = get_combined_summary(merged_detections)
  /\ parked.pc \in {"returned", "done"} =>
       parked.merged_detections
         = merge_detections(parked.yolo_detections,
                            parked.detectron2_detections,
                            parked.floorplan_detections, confidence_weight)
  /\ parked.pc = "done" =>
       parked.summary = get_combined_summary(parked.merged_detections)

\* C26 witness: a call on two detections of one box has returned one fused
\* cluster while the other call, on two detections far apart, stands
\* suspended in its second inner loop with one cluster finished
C26_Witness ==
  /\ Returned
  /\ Len(merged_detections) = 1
  /\ merged_detections[1].num_models_detected = 2
  /\ parked.pc = "inner"
  /\ parked.used_indices = {1, 2}
  /\ Len(parked.merged_detections) = 1
  /\ parked.yolo_detections # yolo_detections

\* how often source s stands in the sources of the returned clusters
RECURSIVE Occurrences(_, _)
Occurrences(s, k) ==
  IF k = 0
    THEN 0
    ELSE Cardinality({p \in 1..Len(merged_detections[k].sources) :
                        merged_detections[k].sources[p] = s})
         + Occurrences(s, k - 1)

RECURSIVE TotalSources(_)
TotalSources(k) ==
  IF k = 0
    THEN 0
    ELSE Len(merged_detections[k].sources) + TotalSources(k - 1)

\* C28: when the call has returned, every position of the sorted list is
\* in exactly one cluster; the lengths of the clusters' sources add up to
\* the number of input detections, and each source stands in them as often
\* as its input list is long.
C28_EveryDetectionOnce ==
  Returned =>
    /\ \A p \in 1..Len(all_detections) :
          Cardinality({<<k, m>> \in (1..Len(members)) \X (1..Len(all_detections)) :
                         m <= Len(members[k]) /\ members[k][m] = p}) = 1
    /\ Len(all_detections) = Len(InputDetections)
    /\ TotalSources(Len(merged_detections)) = Len(InputDetections)
    /\ \A s \in {"yolo", "detectron2", "floorplan"} :
          Occurrences(s, Len(merged_detections)) = Len(InputOf(s))

\* C28 witness: of three detections two of one source were fused and the
\* third stands alone
C28_Witness ==
  /\ Returned
  /\ Len(InputDetections) = 3
  /\ Len(yolo_detections) = 2
  /\ Len(merged_detections) = 2
  /\ merged_detections[1].sources = <<"yolo", "yolo">>

\* C29: two different returned clusters of one class name have boxes whose
\* IoU, in either order, does not exceed iou_threshold.
C29_ClustersNotMergeable ==
  Returned =>
    \A k, l \in 1..Len(merged_detections) :
       (k # l /\ merged_detections[k].class_name = merged_detections[l].class_name)
         => ~FracGT(calculate_iou(merged_detections[k].bbox,
                                  merged_detections[l].bbox), iou_threshold)

\* C29 witness: the seed passed over the second detection, too far away,
\* and absorbed the third, leaving two clusters of one class
C29_Witness ==
  /\ Returned
  /\ Len(merged_detections) = 2
  /\ members = << <<1, 3>>, <<2>> >>
  /\ merged_detections[1].class_name = merged_detections[2].class_name
  /\ calculate_iou(merged_detections[1].bbox, merged_detections[2].bbox)[1] > 0

\* C30: every member of a cluster other than the seed has the canonical
\* class of the seed and an IoU with the box of the seed above the
\* threshold, and matches the seed of no earlier cluster; a detection that
\* overlaps only a member that is not the seed is not in the cluster.
C30_MatchedAgainstSeedOnly ==
  \A k \in 1..Len(members) :
     \A m \in 2..Len(members[k]) :
        LET seed == all_detections[Seed(k)]
            det  == all_detections[members[k][m]]
        IN  /\ Seed(k) < members[k][m]
            /\ Mergeable(seed, det)
            /\ \A e \in 1..(k - 1) : ~Mergeable(all_detections[Seed(e)], det)

\* C30 witness: the seed absorbed a neighbour, and a third detection that
\* overlaps the neighbour but not the seed enough came back on its own
C30_Witness ==
  /\ Returned
  /\ members = << <<1, 2>>, <<3>> >>
  /\ Mergeable(all_detections[2], all_detections[3])
  /\ ~Mergeable(all_detections[1], all_detections[3])

====
